---- MODULE Spec2Model ----
(***************************************************************************)
(* ImageCropTool: the interactive viewport and crop-region editor of       *)
(* src/ImageCropTool/src/image_crop_tool/gui.py (class ImageCropApp).      *)
(*                                                                         *)
(* Python floats are modelled as exact rationals <<n, d>> with d > 0 in    *)
(* lowest terms; int() is truncation toward zero.  Pixel bounds, pointer   *)
(* positions and canvas sizes are integers, as in the code.                *)
(***************************************************************************)
EXTENDS Integers, Sequences, FiniteSets, TLC

(***************************************************************************)
(* Rational arithmetic (the float operations the handlers use).            *)
(***************************************************************************)
Abs(n) == IF n < 0 THEN -n ELSE n

RECURSIVE GCD(_, _)
GCD(a, b) == IF b = 0 THEN a ELSE GCD(b, a % b)

Rat(n, d) ==
    LET s == IF d < 0 THEN -1 ELSE 1
        g == GCD(Abs(n), Abs(d))
    IN  IF n = 0 THEN <<0, 1>> ELSE <<(s * n) \div g, (s * d) \div g>>

RI(n) == <<n, 1>>

\* Sums and comparisons go through the least common denominator.
LcmScale(p, q) == q[2] \div GCD(p[2], q[2])

RAdd(p, q) ==
    Rat(p[1] * LcmScale(p, q) + q[1] * LcmScale(q, p), p[2] * LcmScale(p, q))
RSub(p, q) ==
    Rat(p[1] * LcmScale(p, q) - q[1] * LcmScale(q, p), p[2] * LcmScale(p, q))
RMul(p, q) ==
    LET g1 == GCD(Abs(p[1]), q[2])
        g2 == GCD(Abs(q[1]), p[2])
        a1 == IF g1 = 0 THEN 1 ELSE g1
        a2 == IF g2 = 0 THEN 1 ELSE g2
    IN  Rat((p[1] \div a1) * (q[1] \div a2), (p[2] \div a2) * (q[2] \div a1))
RDiv(p, q) == RMul(p, IF q[1] < 0 THEN <<-q[2], -q[1]>> ELSE <<q[2], q[1]>>)
RLt(p, q) == p[1] * LcmScale(p, q) < q[1] * LcmScale(q, p)
RLe(p, q) == p[1] * LcmScale(p, q) <= q[1] * LcmScale(q, p)
RAbs(p) == <<Abs(p[1]), p[2]>>
RMin(p, q) == IF RLe(p, q) THEN p ELSE q
RMax(p, q) == IF RLe(q, p) THEN p ELSE q

\* Python int(x) on a float: truncation toward zero.
Trunc(p) == IF p[1] >= 0 THEN p[1] \div p[2] ELSE -((-p[1]) \div p[2])

IMin(a, b) == IF a <= b THEN a ELSE b
IMax(a, b) == IF a >= b THEN a ELSE b

(***************************************************************************)
(* Program constants.                                                      *)
(***************************************************************************)
ZOOM_FACTOR == <<6, 5>>          \* 1.2
MIN_ZOOM == <<1, 10>>            \* 0.1
MAX_ZOOM == <<50, 1>>            \* 50.0
HANDLE_SIZE == 8
NO_MARGIN == <<1, 1>>            \* a fit that fills the canvas
FIT_MARGIN == <<19, 20>>         \* the 0.95 of zoom_fit
MIN_CROP_SIZE == 10              \* the floor of a resized dimension
MIN_CANVAS == 10                 \* below this width the canvas is not laid out
DEFAULT_CANVAS == <<800, 600>>

(***************************************************************************)
(* Bounds of the model and the inputs the events are drawn from.           *)
(***************************************************************************)
\* A run handles at most MaxEvents events.
MaxEvents == 6
\* ... and a run of the move-drag specification at most MaxMoveEvents.
MaxMoveEvents == 7

\* Python's None
None == <<>>

\* The files the user can open: width, height and GetGeoTransform() (the
\* identity when the file carries no georeference).
IdentityGT == <<RI(0), RI(1), RI(0), RI(0), RI(0), RI(1)>>
NorthUp == <<RI(116), <<1, 4>>, RI(0), RI(40), RI(0), <<-1, 4>>>>
Images ==
    { [w |-> 760, h |-> 1140, gt |-> NorthUp],
      [w |-> 16, h |-> 12, gt |-> IdentityGT] }
\* ... and the files of the viewport-only specification.
ViewImages ==
    { [w |-> 16, h |-> 12, gt |-> IdentityGT],
      [w |-> 15200, h |-> 11400, gt |-> IdentityGT],
      [w |-> 1000, h |-> 800, gt |-> IdentityGT],
      [w |-> 800, h |-> 600, gt |-> IdentityGT] }

\* ... and the georeferenced files of the unit-conversion specification: a
\* north-up raster with 0.001-degree pixels, and one whose rotation terms
\* make the transform singular.
ScenarioGT == <<RI(116), <<1, 1000>>, RI(0), RI(40), RI(0), <<-1, 1000>>>>
SingularGT == <<RI(0), RI(1), RI(1), RI(0), RI(1), RI(1)>>
SouthUpGT == <<RI(116), <<1, 1000>>, RI(0), RI(39), RI(0), <<1, 1000>>>>
GeoImages ==
    { [w |-> 1000, h |-> 800, gt |-> ScenarioGT],
      [w |-> 1000, h |-> 800, gt |-> SouthUpGT],
      [w |-> 1000, h |-> 800, gt |-> SingularGT] }

\* The size the canvas is laid out with when the window is built, and the
\* sizes a later <Configure> can give it (1 x 1: not laid out).
InitCanvas == <<800, 600>>
Canvases == { <<800, 600>>, <<1, 1>>, <<800, 5>> }

\* What the user can type into the four numeric fields (x, y, w, h).
TypedEntries ==
    { <<RI(100), RI(50), RI(200), RI(150)>>,
      <<None, RI(-20), RI(0), RI(40)>> }

\* ... and in the unit-conversion specification.
GeoTypedEntries ==
    { <<RI(100), RI(50), RI(200), RI(150)>>,
      <<RI(10), RI(20), RI(30), RI(40)>>,
      <<<<1161, 10>>, <<199, 5>>, <<1, 5>>, <<3, 20>>>> }

\* Pointer positions (display pixels) of primary-button events.
Points == { <<205, 90>>, <<250, 100>>, <<400, 300>> }
\* Pointer positions of wheel and secondary-button events: in the editor
\* specification, and in the viewport-only specification.
WheelPoints == { <<205, 90>> }
PanStartPoints == { <<400, 300>> }
PanPoints == { <<430, 280>>, <<400, 300>> }
ViewWheelPoints == { <<205, 90>>, <<400, 300>> }
ViewPanPoints == { <<430, 280>>, <<400, 300>> }

\* The corner handles, in the order _get_handle_at tests them.
Handles == <<"nw", "ne", "sw", "se">>

VARIABLES
    original_image,      \* TRUE iff an image is loaded (self.original_image)
    img_width, img_height,
    geo_transform,       \* 6-tuple of rationals, or None
    inv_geo_transform,   \* 6-tuple of rationals, or None
    has_geo,
    canvas_w, canvas_h,  \* canvas.winfo_width() / winfo_height()
    scale, offset_x, offset_y,
    dragging_pan, pan_start_x, pan_start_y,
    dragging_crop, crop_start_x, crop_start_y,
    crop_drag_mode,      \* "none", "move", "resize"
    active_handle,       \* "none" or a handle name
    drag_start_bounds,   \* None or <<x, y, w, h>>
    crop_bounds,         \* None or <<x, y, w, h>>
    coord_mode,          \* "pixel" or "geo"
    entries,             \* the four numeric fields: each None or a rational
    button1,             \* primary button held after a press on the canvas
    n_events,            \* events handled so far
    event,               \* the last event handled, with its inputs
    rendered,            \* the image window the last redraw resampled, or None
    switch_origin,       \* the fields before a pixel -> geo switch that no
                         \* edit has followed, or None
    since_reset,         \* TRUE iff a reset has been handled and no primary
                         \* press or numeric commit since
    grab,                \* the image point under the pointer at the press
                         \* that started the move drag in progress, or None
    call,                \* the last call into coord_transform.py / crop_core.py
    output               \* the raster at the output path: None or a record

view == <<scale, offset_x, offset_y>>
drag == <<dragging_crop, crop_start_x, crop_start_y, crop_drag_mode,
          active_handle, drag_start_bounds>>
pan == <<dragging_pan, pan_start_x, pan_start_y>>
image == <<original_image, img_width, img_height, geo_transform,
           inv_geo_transform, has_geo>>
canvas == <<canvas_w, canvas_h>>

editor == <<image, canvas, view, pan, drag, crop_bounds, coord_mode, entries,
            button1, n_events, event, rendered, switch_origin, since_reset,
            grab>>

core == <<call, output>>

vars == <<editor, core>>


(***************************************************************************)
(* Coordinate mappings.                                                    *)
(***************************************************************************)
\* image_to_canvas, per axis
image_to_canvas_x(ix) == RAdd(RMul(RI(ix), scale), offset_x)
image_to_canvas_y(iy) == RAdd(RMul(RI(iy), scale), offset_y)

\* canvas_to_image, per axis
canvas_to_image_x(cx) == RDiv(RSub(RI(cx), offset_x), scale)
canvas_to_image_y(cy) == RDiv(RSub(RI(cy), offset_y), scale)

\* gdal.InvGeoTransform: the inverse affine map, None when it is singular.
InvGeoTransform(gt) ==
    LET det == RSub(RMul(gt[2], gt[6]), RMul(gt[3], gt[5]))
    IN  IF det[1] = 0 THEN None
        ELSE LET i1 == RDiv(gt[6], det)
                 i2 == RDiv(RSub(RI(0), gt[3]), det)
                 i4 == RDiv(RSub(RI(0), gt[5]), det)
                 i5 == RDiv(gt[2], det)
             IN  << RSub(RSub(RI(0), RMul(gt[1], i1)), RMul(gt[4], i2)),
                    i1, i2,
                    RSub(RSub(RI(0), RMul(gt[1], i4)), RMul(gt[4], i5)),
                    i4, i5 >>

\* _geo_to_pixel: <<px, py>>
_geo_to_pixel(gx, gy) ==
    IF ~has_geo THEN <<gx, gy>>
    ELSE IF inv_geo_transform # None
    THEN LET gt == inv_geo_transform
         IN  << RAdd(RAdd(gt[1], RMul(gx, gt[2])), RMul(gy, gt[3])),
                RAdd(RAdd(gt[4], RMul(gx, gt[5])), RMul(gy, gt[6])) >>
    ELSE LET gt == geo_transform
         IN  << RDiv(RSub(gx, gt[1]), gt[2]), RDiv(RSub(gy, gt[4]), gt[6]) >>

\* The conversion of a file without georeferencing, applied to every file.
PixelAsGeo(px, py) == <<px, py>>

\* _pixel_to_geo: <<gx, gy>>
_pixel_to_geo(px, py) ==
    IF ~has_geo THEN <<px, py>>
    ELSE LET gt == geo_transform
         IN  << RAdd(RAdd(gt[1], RMul(px, gt[2])), RMul(py, gt[3])),
                RAdd(RAdd(gt[4], RMul(px, gt[5])), RMul(py, gt[6])) >>

(***************************************************************************)
(* Number formatting of the numeric fields: "{:.0f}" and "{:.6f}" round    *)
(* to the nearest value with 0 / 6 decimals, ties to even.                 *)
(***************************************************************************)
Million == 1000000

\* floor(n / d) for d > 0
FloorDiv(n, d) == IF n >= 0 THEN n \div d ELSE -((-n + d - 1) \div d)

\* round(n / d) to an integer, ties to even (n >= 0, d > 0)
RoundHalfEven(n, d) ==
    LET q == n \div d
        r == n % d
    IN  IF 2 * r < d THEN q
        ELSE IF 2 * r > d THEN q + 1
        ELSE IF q % 2 = 0 THEN q ELSE q + 1

Fmt0(v) ==
    LET q == FloorDiv(v[1], v[2])
        r == v[1] - q * v[2]
        up == IF 2 * r < v[2] THEN 0
              ELSE IF 2 * r > v[2] THEN 1
              ELSE IF q % 2 = 0 THEN 0 ELSE 1
    IN  RI(q + up)

Fmt6(v) ==
    LET q == FloorDiv(v[1], v[2])
        r == v[1] - q * v[2]
        g == GCD(Million, v[2])
    IN  RAdd(RI(q), Rat(RoundHalfEven(r * (Million \div g), v[2] \div g),
                        Million))

Fmt(mode, v) == IF mode = "pixel" THEN Fmt0(v) ELSE Fmt6(v)

(***************************************************************************)
(* Construction.                                                           *)
(***************************************************************************)
\* The state of the InteractionController, read off the drag fields.
ControllerState ==
    IF crop_drag_mode = "resize" THEN "RESIZING"
    ELSE IF crop_drag_mode = "move" THEN "MOVING"
    ELSE IF dragging_crop THEN "DRAWING"
    ELSE IF dragging_pan THEN "PANNING"
    ELSE "IDLE"

\* No call into coord_transform.py has been made.
NoCall ==
    [fn |-> "none", gt |-> None, args |-> None, size |-> None,
     result |-> None, pixel |-> None, window |-> None]

\* An event as the handler receives it, and the controller state it arrives in.
Ev(name, x, y, d) ==
    [name |-> name, x |-> x, y |-> y, d |-> d, from |-> ControllerState]

Init ==
    /\ original_image = FALSE
    /\ img_width = 0 /\ img_height = 0
    /\ geo_transform = None /\ inv_geo_transform = None /\ has_geo = FALSE
    /\ canvas_w = InitCanvas[1] /\ canvas_h = InitCanvas[2]
    /\ scale = RI(1) /\ offset_x = RI(0) /\ offset_y = RI(0)
    /\ dragging_pan = FALSE /\ pan_start_x = 0 /\ pan_start_y = 0
    /\ dragging_crop = FALSE /\ crop_start_x = 0 /\ crop_start_y = 0
    /\ crop_drag_mode = "none" /\ active_handle = "none"
    /\ drag_start_bounds = None
    /\ crop_bounds = None
    /\ coord_mode = "pixel"
    /\ entries = <<None, None, None, None>>
    /\ button1 = FALSE
    /\ n_events = 0
    /\ event = Ev("init", 0, 0, 0)
    /\ rendered = None
    /\ switch_origin = None
    /\ since_reset = FALSE
    /\ grab = None
    /\ call = NoCall
    /\ output = None

(***************************************************************************)
(* Renderer.                                                               *)
(***************************************************************************)
\* redraw: the image window <<ix1, iy1, ix2, iy2>> it crops and resamples
\* for a W x H image on a cw x ch canvas under the view (sc, ox, oy), or
\* None when it requests nothing (no image is loaded, or the display is
\* cleared).
redraw(loaded, W, H, cw, ch, sc, ox, oy) ==
    IF ~loaded THEN None
    ELSE LET ix1 == IMax(0, Trunc(RDiv(RSub(RI(0), ox), sc)))
             iy1 == IMax(0, Trunc(RDiv(RSub(RI(0), oy), sc)))
             ix2 == IMin(W, Trunc(RDiv(RSub(RI(cw), ox), sc)) + 1)
             iy2 == IMin(H, Trunc(RDiv(RSub(RI(ch), oy), sc)) + 1)
         IN  IF ix2 <= ix1 \/ iy2 <= iy1 THEN None
             ELSE <<ix1, iy1, ix2, iy2>>

(***************************************************************************)
(* ViewportModel: fit, 100%, zoom, pan.                                    *)
(***************************************************************************)
\* The canvas size zoom_fit and zoom_100 work with.
GuardedCanvas(cw, ch) == IF cw < MIN_CANVAS THEN DEFAULT_CANVAS ELSE <<cw, ch>>

\* A fit that looks at the width alone.
FitViewByWidth(cw0, ch0, W, H) ==
    LET sc == RMul(Rat(cw0, W), <<19, 20>>)
    IN  << sc,
           RDiv(RSub(RI(cw0), RMul(RI(W), sc)), RI(2)),
           RDiv(RSub(RI(ch0), RMul(RI(H), sc)), RI(2)) >>

\* zoom_fit: the <<scale, offset_x, offset_y>> it sets for a W x H image.
FitView(cw0, ch0, W, H) ==
    LET c == GuardedCanvas(cw0, ch0)
        w_ratio == Rat(c[1], W)
        h_ratio == Rat(c[2], H)
        sc == RMul(RMin(w_ratio, h_ratio), FIT_MARGIN)
        disp_w == RMul(RI(W), sc)
        disp_h == RMul(RI(H), sc)
    IN  << sc,
           RDiv(RSub(RI(c[1]), disp_w), RI(2)),
           RDiv(RSub(RI(c[2]), disp_h), RI(2)) >>

zoom_fit ==
    /\ event' = Ev("zoom_fit", 0, 0, 0)
    /\ IF ~original_image THEN UNCHANGED view
       ELSE LET v == FitView(canvas_w, canvas_h, img_width, img_height)
            IN  scale' = v[1] /\ offset_x' = v[2] /\ offset_y' = v[3]
    /\ UNCHANGED <<image, canvas, pan, drag, crop_bounds, coord_mode, entries,
                   button1>>

zoom_100 ==
    /\ event' = Ev("zoom_100", 0, 0, 0)
    /\ IF ~original_image THEN UNCHANGED view
       ELSE LET c == GuardedCanvas(canvas_w, canvas_h)
            IN  /\ scale' = RI(1)
                /\ offset_x' = Rat(c[1] - img_width, 2)
                /\ offset_y' = Rat(c[2] - img_height, 2)
    /\ UNCHANGED <<image, canvas, pan, drag, crop_bounds, coord_mode, entries,
                   button1>>

\* A zoom that does not limit the scale.
NoClamp(new_scale) == new_scale

\* The clamp both zoom paths apply to scale * factor.
ClampScale(new_scale) ==
    LET s1 == IF RLt(new_scale, MIN_ZOOM) THEN MIN_ZOOM ELSE new_scale
    IN  IF RLt(MAX_ZOOM, s1) THEN MAX_ZOOM ELSE s1

\* _zoom_view: zoom about the canvas centre (toolbar and +/- keys).
_zoom_view(factor) ==
    /\ IF ~original_image THEN UNCHANGED view
       ELSE LET cx == Rat(canvas_w, 2)
                cy == Rat(canvas_h, 2)
                new_scale == ClampScale(RMul(scale, factor))
                real_factor == RDiv(new_scale, scale)
            IN  /\ scale' = new_scale
                /\ offset_x' = RSub(cx, RMul(RSub(cx, offset_x), real_factor))
                /\ offset_y' = RSub(cy, RMul(RSub(cy, offset_y), real_factor))
    /\ UNCHANGED <<image, canvas, pan, drag, crop_bounds, coord_mode, entries,
                   button1>>

zoom_in ==
    /\ event' = Ev("zoom_in", 0, 0, 0)
    /\ _zoom_view(ZOOM_FACTOR)

zoom_out ==
    /\ event' = Ev("zoom_out", 0, 0, 0)
    /\ _zoom_view(RDiv(RI(1), ZOOM_FACTOR))

\* A wheel handler that moves the offsets by the requested factor, not by
\* the factor the clamp left.
on_mouse_wheel_requested_factor(p, delta) ==
    /\ event' = Ev("on_mouse_wheel", p[1], p[2], delta)
    /\ IF ~original_image THEN UNCHANGED view
       ELSE LET factor == IF delta < 0 THEN RDiv(RI(1), ZOOM_FACTOR)
                          ELSE ZOOM_FACTOR
                mx == RI(p[1])
                my == RI(p[2])
            IN  /\ scale' = ClampScale(RMul(scale, factor))
                /\ offset_x' = RSub(mx, RMul(RSub(mx, offset_x), factor))
                /\ offset_y' = RSub(my, RMul(RSub(my, offset_y), factor))
    /\ UNCHANGED <<image, canvas, pan, drag, crop_bounds, coord_mode, entries,
                   button1>>

\* A wheel handler that does not zoom.
on_mouse_wheel_ignored(p, delta) ==
    /\ event' = Ev("on_mouse_wheel", p[1], p[2], delta)
    /\ UNCHANGED <<image, canvas, view, pan, drag, crop_bounds, coord_mode,
                   entries, button1>>

\* on_mouse_wheel: zoom about the cursor; delta < 0 (or Button-5) zooms out.
on_mouse_wheel(p, delta) ==
    /\ event' = Ev("on_mouse_wheel", p[1], p[2], delta)
    /\ IF ~original_image THEN UNCHANGED view
       ELSE LET factor == IF delta < 0 THEN RDiv(RI(1), ZOOM_FACTOR)
                          ELSE ZOOM_FACTOR
                new_scale == ClampScale(RMul(scale, factor))
                real_factor == RDiv(new_scale, scale)
                mx == RI(p[1])
                my == RI(p[2])
            IN  /\ scale' = new_scale
                /\ offset_x' = RSub(mx, RMul(RSub(mx, offset_x), real_factor))
                /\ offset_y' = RSub(my, RMul(RSub(my, offset_y), real_factor))
    /\ UNCHANGED <<image, canvas, pan, drag, crop_bounds, coord_mode, entries,
                   button1>>

on_pan_start(p) ==
    /\ ~dragging_pan
    /\ event' = Ev("on_pan_start", p[1], p[2], 0)
    /\ dragging_pan' = TRUE
    /\ pan_start_x' = p[1]
    /\ pan_start_y' = p[2]
    /\ UNCHANGED <<image, canvas, view, drag, crop_bounds, coord_mode, entries,
                   button1>>

\* A pan step that keeps measuring from the secondary-down point.
on_pan_drag_stale_start(p) ==
    /\ dragging_pan
    /\ event' = Ev("on_pan_drag", p[1], p[2], 0)
    /\ offset_x' = RAdd(offset_x, RI(p[1] - pan_start_x))
    /\ offset_y' = RAdd(offset_y, RI(p[2] - pan_start_y))
    /\ UNCHANGED <<image, canvas, scale, pan, drag, crop_bounds, coord_mode,
                   entries, button1>>

on_pan_drag(p) ==
    /\ dragging_pan
    /\ event' = Ev("on_pan_drag", p[1], p[2], 0)
    /\ offset_x' = RAdd(offset_x, RI(p[1] - pan_start_x))
    /\ offset_y' = RAdd(offset_y, RI(p[2] - pan_start_y))
    /\ pan_start_x' = p[1]
    /\ pan_start_y' = p[2]
    /\ UNCHANGED <<image, canvas, scale, dragging_pan, drag, crop_bounds,
                   coord_mode, entries, button1>>

on_pan_end(p) ==
    /\ dragging_pan
    /\ event' = Ev("on_pan_end", 0, 0, 0)
    /\ dragging_pan' = FALSE
    /\ UNCHANGED <<image, canvas, view, pan_start_x, pan_start_y, drag,
                   crop_bounds, coord_mode, entries, button1>>

\* <Configure>: the window manager lays the canvas out; the handler redraws.
on_resize(c) ==
    /\ event' = Ev("on_resize", c[1], c[2], 0)
    /\ canvas_w' = c[1]
    /\ canvas_h' = c[2]
    /\ UNCHANGED <<image, view, pan, drag, crop_bounds, coord_mode, entries,
                   button1>>

\* open_image: _load_file (GDAL path) followed by zoom_fit.
open_image(img) ==
    /\ event' = Ev("open_image", 0, 0, 0)
    /\ original_image' = TRUE
    /\ img_width' = img.w
    /\ img_height' = img.h
    /\ geo_transform' = img.gt
    /\ has_geo' = (img.gt # IdentityGT)
    /\ inv_geo_transform' = IF img.gt # IdentityGT THEN InvGeoTransform(img.gt)
                            ELSE inv_geo_transform
    /\ coord_mode' = IF img.gt # IdentityGT THEN coord_mode ELSE "pixel"
    /\ LET v == FitView(canvas_w, canvas_h, img.w, img.h)
       IN  scale' = v[1] /\ offset_x' = v[2] /\ offset_y' = v[3]
    /\ UNCHANGED <<canvas, pan, drag, crop_bounds, entries, button1>>

(***************************************************************************)
(* CropRegion: hit testing.                                                *)
(***************************************************************************)
HANDLE_SLACK == 4

\* The display position of a corner handle of bounds b.
HandleX(name, b) ==
    IF name \in {"nw", "sw"} THEN image_to_canvas_x(b[1])
    ELSE image_to_canvas_x(b[1] + b[3])
HandleY(name, b) ==
    IF name \in {"nw", "ne"} THEN image_to_canvas_y(b[2])
    ELSE image_to_canvas_y(b[2] + b[4])

\* abs(cx - hx) <= hs and abs(cy - hy) <= hs
InHandle(name, cx, cy) ==
    LET hs == RI(HANDLE_SIZE + HANDLE_SLACK)
    IN  /\ RLe(RAbs(RSub(RI(cx), HandleX(name, crop_bounds))), hs)
        /\ RLe(RAbs(RSub(RI(cy), HandleY(name, crop_bounds))), hs)

\* A hit test that finds no handle.
NoHandleAt(cx, cy) == "none"

\* _get_handle_at: the first handle, in dictionary order, that is in range.
_get_handle_at(cx, cy) ==
    IF crop_bounds = None THEN "none"
    ELSE LET hit == { i \in 1..Len(Handles) : InHandle(Handles[i], cx, cy) }
         IN  IF hit = {} THEN "none"
             ELSE Handles[CHOOSE i \in hit : \A j \in hit : i <= j]

\* _is_inside_crop: strict interior, in display space.
_is_inside_crop(cx, cy) ==
    IF crop_bounds = None THEN FALSE
    ELSE LET cx1 == image_to_canvas_x(crop_bounds[1])
             cy1 == image_to_canvas_y(crop_bounds[2])
             cx2 == image_to_canvas_x(crop_bounds[1] + crop_bounds[3])
             cy2 == image_to_canvas_y(crop_bounds[2] + crop_bounds[4])
         IN  /\ RLt(cx1, RI(cx)) /\ RLt(RI(cx), cx2)
             /\ RLt(cy1, RI(cy)) /\ RLt(RI(cy), cy2)

(***************************************************************************)
(* The numeric fields.                                                     *)
(***************************************************************************)
\* update_crop_inputs: the contents of the four fields after the call, for
\* crop region cb, unit mode `mode` and current contents ents.
update_crop_inputs(cb, mode, ents) ==
    IF cb = None
    THEN IF \E k \in 1..4 : ents[k] = None
         THEN ents
         ELSE IF mode = "geo"
         THEN LET g1 == _pixel_to_geo(ents[1], ents[2])
                  g2 == _pixel_to_geo(RAdd(ents[1], ents[3]),
                                      RAdd(ents[2], ents[4]))
              IN  << Fmt(mode, RMin(g1[1], g2[1])),
                     Fmt(mode, RMin(g1[2], g2[2])),
                     Fmt(mode, RAbs(RSub(g1[1], g2[1]))),
                     Fmt(mode, RAbs(RSub(g1[2], g2[2]))) >>
         ELSE LET p1 == _geo_to_pixel(ents[1], ents[2])
                  p2 == _geo_to_pixel(RAdd(ents[1], ents[3]),
                                      RAdd(ents[2], ents[4]))
              IN  << Fmt(mode, RMin(p1[1], p2[1])),
                     Fmt(mode, RMin(p1[2], p2[2])),
                     Fmt(mode, RAbs(RSub(p1[1], p2[1]))),
                     Fmt(mode, RAbs(RSub(p1[2], p2[2]))) >>
    ELSE IF mode = "pixel"
    THEN << Fmt(mode, RI(cb[1])), Fmt(mode, RI(cb[2])),
            Fmt(mode, RI(cb[3])), Fmt(mode, RI(cb[4])) >>
    ELSE LET g == _pixel_to_geo(RI(cb[1]), RI(cb[2]))
             g2 == _pixel_to_geo(RI(cb[1] + cb[3]), RI(cb[2] + cb[4]))
         IN  << Fmt(mode, RMin(g[1], g2[1])),
                Fmt(mode, RMin(g[2], g2[2])),
                Fmt(mode, RAbs(RSub(g2[1], g[1]))),
                Fmt(mode, RAbs(RSub(g2[2], g[2]))) >>

(***************************************************************************)
(* InteractionController: primary-button handlers.                         *)
(***************************************************************************)
on_crop_start(p) ==
    LET cx == p[1]
        cy == p[2]
        handle == _get_handle_at(cx, cy)
    IN  /\ ~button1
        /\ button1' = TRUE
        /\ event' = Ev("on_crop_start", cx, cy, 0)
        /\ IF ~original_image
           THEN UNCHANGED <<drag, crop_bounds>>
           ELSE IF handle # "none"
           THEN /\ crop_drag_mode' = "resize"
                /\ active_handle' = handle
                /\ drag_start_bounds' = crop_bounds
                /\ crop_start_x' = cx
                /\ crop_start_y' = cy
                /\ UNCHANGED <<dragging_crop, crop_bounds>>
           ELSE IF _is_inside_crop(cx, cy)
           THEN /\ crop_drag_mode' = "move"
                /\ active_handle' = "none"
                /\ drag_start_bounds' = crop_bounds
                /\ crop_start_x' = cx
                /\ crop_start_y' = cy
                /\ UNCHANGED <<dragging_crop, crop_bounds>>
           ELSE /\ dragging_crop' = TRUE
                /\ crop_drag_mode' = "none"
                /\ crop_start_x' = cx
                /\ crop_start_y' = cy
                /\ crop_bounds' = None
                /\ UNCHANGED <<active_handle, drag_start_bounds>>
        /\ UNCHANGED <<image, canvas, view, pan, coord_mode, entries>>

\* A move that translates the snapshot without constraining it to the image.
MoveBoundsUnclamped(cx, cy) ==
    << Trunc(RAdd(RI(drag_start_bounds[1]),
                  RDiv(RI(cx - crop_start_x), scale))),
       Trunc(RAdd(RI(drag_start_bounds[2]),
                  RDiv(RI(cy - crop_start_y), scale))),
       drag_start_bounds[3], drag_start_bounds[4] >>

\* The bounds a move drag to display point (cx, cy) stores.
MoveBounds(cx, cy) ==
    LET dx == cx - crop_start_x
        dy == cy - crop_start_y
        ox == drag_start_bounds[1]
        oy == drag_start_bounds[2]
        ow == drag_start_bounds[3]
        oh == drag_start_bounds[4]
        dx_img == RDiv(RI(dx), scale)
        dy_img == RDiv(RI(dy), scale)
        new_x == Trunc(RAdd(RI(ox), dx_img))
        new_y == Trunc(RAdd(RI(oy), dy_img))
    IN  << IMax(0, IMin(new_x, img_width - ow)),
           IMax(0, IMin(new_y, img_height - oh)), ow, oh >>

\* The bounds a resize drag to display point (cx, cy) stores.
ResizeBounds(cx, cy) ==
    LET ox == RI(drag_start_bounds[1])
        oy == RI(drag_start_bounds[2])
        ow == RI(drag_start_bounds[3])
        oh == RI(drag_start_bounds[4])
        dx == RDiv(RI(cx - crop_start_x), scale)
        dy == RDiv(RI(cy - crop_start_y), scale)
        h == active_handle
        floor == RI(MIN_CROP_SIZE)
        nx == IF h \in {"nw", "sw"} THEN RAdd(ox, dx) ELSE ox
        nw == IF h \in {"nw", "sw"} THEN RMax(floor, RSub(ow, dx))
              ELSE IF h \in {"ne", "se"} THEN RMax(floor, RAdd(ow, dx))
              ELSE ow
        ny == IF h \in {"nw", "ne"} THEN RAdd(oy, dy) ELSE oy
        nh == IF h \in {"nw", "ne"} THEN RMax(floor, RSub(oh, dy))
              ELSE IF h \in {"sw", "se"} THEN RMax(floor, RAdd(oh, dy))
              ELSE oh
    IN  <<Trunc(nx), Trunc(ny), Trunc(nw), Trunc(nh)>>

on_crop_drag(p) ==
    LET cx == p[1]
        cy == p[2]
    IN  /\ button1
        /\ event' = Ev("on_crop_drag", cx, cy, 0)
        /\ IF crop_drag_mode = "move" /\ drag_start_bounds # None
           THEN crop_bounds' = MoveBounds(cx, cy)
           ELSE IF crop_drag_mode = "resize" /\ drag_start_bounds # None
           THEN crop_bounds' = ResizeBounds(cx, cy)
           ELSE UNCHANGED crop_bounds
        /\ UNCHANGED <<image, canvas, view, pan, drag, coord_mode, entries,
                       button1>>

\* A release that merges the drawn rectangle into the region still stored.
DrawnBoundsMerged(cx2, cy2) ==
    LET ix1 == canvas_to_image_x(crop_start_x)
        iy1 == canvas_to_image_y(crop_start_y)
        ix2 == canvas_to_image_x(cx2)
        iy2 == canvas_to_image_y(cy2)
        x == Trunc(RMin(ix1, ix2))
        y == Trunc(RMin(iy1, iy2))
        w == Trunc(RAbs(RSub(ix2, ix1)))
        h == Trunc(RAbs(RSub(iy2, iy1)))
        old == crop_bounds
    IN  IF w < 1 \/ h < 1 THEN None
        ELSE IF old = None THEN <<x, y, w, h>>
        ELSE << IMin(x, old[1]), IMin(y, old[2]),
                IMax(x + w, old[1] + old[3]) - IMin(x, old[1]),
                IMax(y + h, old[2] + old[4]) - IMin(y, old[2]) >>

\* A release that stores the drawn rectangle whatever its size.
DrawnBoundsAnySize(cx2, cy2) ==
    LET ix1 == canvas_to_image_x(crop_start_x)
        iy1 == canvas_to_image_y(crop_start_y)
        ix2 == canvas_to_image_x(cx2)
        iy2 == canvas_to_image_y(cy2)
    IN  << Trunc(RMin(ix1, ix2)), Trunc(RMin(iy1, iy2)),
           Trunc(RAbs(RSub(ix2, ix1))), Trunc(RAbs(RSub(iy2, iy1))) >>

\* The region a drawing drag released at display point (cx2, cy2) commits.
DrawnBounds(cx2, cy2) ==
    LET ix1 == canvas_to_image_x(crop_start_x)
        iy1 == canvas_to_image_y(crop_start_y)
        ix2 == canvas_to_image_x(cx2)
        iy2 == canvas_to_image_y(cy2)
        x == RMin(ix1, ix2)
        y == RMin(iy1, iy2)
        w == RAbs(RSub(ix2, ix1))
        h == RAbs(RSub(iy2, iy1))
    IN  IF RLt(w, RI(1)) \/ RLt(h, RI(1)) THEN None
        ELSE <<Trunc(x), Trunc(y), Trunc(w), Trunc(h)>>

\* A release that ends the press and leaves the interaction state as it is.
on_crop_end_ignored(p) ==
    /\ button1
    /\ button1' = FALSE
    /\ event' = Ev("on_crop_end", p[1], p[2], 0)
    /\ UNCHANGED <<image, canvas, view, pan, drag, crop_bounds, coord_mode,
                   entries>>

on_crop_end(p) ==
    /\ button1
    /\ button1' = FALSE
    /\ event' = Ev("on_crop_end", p[1], p[2], 0)
    /\ IF crop_drag_mode \in {"move", "resize"}
       THEN /\ crop_drag_mode' = "none"
            /\ active_handle' = "none"
            /\ drag_start_bounds' = None
            /\ entries' = update_crop_inputs(crop_bounds, coord_mode, entries)
            /\ UNCHANGED <<dragging_crop, crop_start_x, crop_start_y,
                           crop_bounds>>
       ELSE /\ dragging_crop' = FALSE
            /\ crop_bounds' = DrawnBounds(p[1], p[2])
            /\ entries' = IF DrawnBounds(p[1], p[2]) = None THEN entries
                          ELSE update_crop_inputs(DrawnBounds(p[1], p[2]),
                                                  coord_mode, entries)
            /\ UNCHANGED <<crop_start_x, crop_start_y, crop_drag_mode,
                           active_handle, drag_start_bounds>>
    /\ UNCHANGED <<image, canvas, view, pan, coord_mode>>

(***************************************************************************)
(* Side panel and keyboard.                                                *)
(***************************************************************************)
\* The user edits the text of the numeric fields.
type_entries(t) ==
    /\ event' = Ev("type_entries", 0, 0, 0)
    /\ entries' = t
    /\ UNCHANGED <<image, canvas, view, pan, drag, crop_bounds, coord_mode,
                   button1>>

\* A commit that takes the fields for pixels whatever the unit mode.
InputBoundsAsPixels(ents) ==
    <<Trunc(ents[1]), Trunc(ents[2]), Trunc(ents[3]), Trunc(ents[4])>>

\* The region apply_input_bounds stores for numeric field contents ents.
InputBounds(ents) ==
    IF coord_mode = "pixel"
    THEN <<Trunc(ents[1]), Trunc(ents[2]), Trunc(ents[3]), Trunc(ents[4])>>
    ELSE LET p1 == _geo_to_pixel(ents[1], ents[2])
             p2 == _geo_to_pixel(RAdd(ents[1], ents[3]), RAdd(ents[2], ents[4]))
         IN  << Trunc(RMin(p1[1], p2[1])), Trunc(RMin(p1[2], p2[2])),
                Trunc(RAbs(RSub(p2[1], p1[1]))),
                Trunc(RAbs(RSub(p2[2], p1[2]))) >>

\* A commit that drops the region when a field is not a number.
apply_input_bounds_clearing ==
    /\ event' = Ev("apply_input_bounds", 0, 0, 0)
    /\ IF ~original_image
       THEN UNCHANGED crop_bounds
       ELSE IF \E k \in 1..4 : entries[k] = None
       THEN crop_bounds' = None
       ELSE crop_bounds' = InputBounds(entries)
    /\ UNCHANGED <<image, canvas, view, pan, drag, coord_mode, entries,
                   button1>>

apply_input_bounds ==
    /\ event' = Ev("apply_input_bounds", 0, 0, 0)
    /\ IF ~original_image \/ (\E k \in 1..4 : entries[k] = None)
       THEN UNCHANGED crop_bounds
       ELSE crop_bounds' = InputBounds(entries)
    /\ UNCHANGED <<image, canvas, view, pan, drag, coord_mode, entries,
                   button1>>

\* The unit radio buttons: the variable is set, then the command runs.
select_mode(m) ==
    /\ m = "geo" => (has_geo \/ ~original_image)
    /\ event' = Ev("select_mode", 0, 0, 0)
    /\ coord_mode' = m
    /\ entries' = update_crop_inputs(crop_bounds, m, entries)
    /\ UNCHANGED <<image, canvas, view, pan, drag, crop_bounds, button1>>

\* move_crop: the arrow keys (step 1, or 10 with shift).
move_crop(dx, dy) ==
    /\ event' = Ev("move_crop", dx, dy, 0)
    /\ IF crop_bounds = None
       THEN UNCHANGED <<crop_bounds, entries>>
       ELSE LET x == crop_bounds[1]
                y == crop_bounds[2]
                w == crop_bounds[3]
                h == crop_bounds[4]
                nx == IMax(0, IMin(x + dx, img_width - w))
                ny == IMax(0, IMin(y + dy, img_height - h))
            IN  /\ crop_bounds' = <<nx, ny, w, h>>
                /\ entries' = update_crop_inputs(<<nx, ny, w, h>>, coord_mode,
                                                 entries)
    /\ UNCHANGED <<image, canvas, view, pan, drag, coord_mode, button1>>

reset_crop ==
    /\ event' = Ev("reset_crop", 0, 0, 0)
    /\ crop_bounds' = None
    /\ entries' = <<None, None, None, None>>
    /\ UNCHANGED <<image, canvas, view, pan, drag, coord_mode, button1>>

\* The key bindings of move_crop.
Nudges == { <<-1, 0>>, <<0, 10>> }

(***************************************************************************)
(* coord_transform.py: the conversions the crop core calls.  A float       *)
(* result whose exact value has no finite binary expansion is the exact    *)
(* value or a neighbour one FloatUlp away; a value with a power-of-two     *)
(* denominator is represented exactly.                                     *)
(***************************************************************************)
FloatUlp == <<1, Million>>

RECURSIVE IsPowerOfTwo(_)
IsPowerOfTwo(n) == n = 1 \/ (n % 2 = 0 /\ IsPowerOfTwo(n \div 2))

\* The values a float computation of the real number v can yield.
Float(v) ==
    IF IsPowerOfTwo(v[2]) THEN {v}
    ELSE {RSub(v, FloatUlp), v, RAdd(v, FloatUlp)}

\* The exception geo_to_pixel raises, as a call result.
CoordinateTransformError == <<"CoordinateTransformError">>

\* pixel_to_geo: the set of <<geo_x, geo_y>> the call can return.
pixel_to_geo(gt, pixel_x, pixel_y) ==
    LET x_origin == gt[1]
        pixel_width == gt[2]
        x_rotation == gt[3]
        y_origin == gt[4]
        y_rotation == gt[5]
        pixel_height == gt[6]
        geo_x == RAdd(RAdd(x_origin, RMul(RI(pixel_x), pixel_width)),
                      RMul(RI(pixel_y), x_rotation))
        geo_y == RAdd(RAdd(y_origin, RMul(RI(pixel_x), y_rotation)),
                      RMul(RI(pixel_y), pixel_height))
    IN  { <<fx, fy>> : fx \in Float(geo_x), fy \in Float(geo_y) }

\* det of the 2x2 part of the transform.
Determinant(gt) == RSub(RMul(gt[2], gt[6]), RMul(gt[3], gt[5]))

\* geo_to_pixel: the set of outcomes of the call, each <<pixel_x, pixel_y>>
\* or CoordinateTransformError.  abs(det) < 1e-10 is det = 0 here: every
\* nonzero value n/d of the model has d below 2^31 and so is above 1e-10.
\* A zero pixel size without rotation divides by zero, which the except
\* clause turns into CoordinateTransformError.
geo_to_pixel(gt, geo_x, geo_y) ==
    LET x_origin == gt[1]
        pixel_width == gt[2]
        x_rotation == gt[3]
        y_origin == gt[4]
        y_rotation == gt[5]
        pixel_height == gt[6]
        dx == RSub(geo_x, x_origin)
        dy == RSub(geo_y, y_origin)
        det == Determinant(gt)
    IN  IF x_rotation # RI(0) \/ y_rotation # RI(0)
        THEN IF det[1] = 0
             THEN {CoordinateTransformError}
             ELSE { <<Trunc(fx), Trunc(fy)>> :
                      fx \in Float(RDiv(RSub(RMul(pixel_height, dx),
                                             RMul(x_rotation, dy)), det)),
                      fy \in Float(RDiv(RSub(RMul(pixel_width, dy),
                                             RMul(y_rotation, dx)), det)) }
        ELSE IF pixel_width[1] = 0 \/ pixel_height[1] = 0
             THEN {CoordinateTransformError}
             ELSE { <<Trunc(fx), Trunc(fy)>> :
                      fx \in Float(RDiv(dx, pixel_width)),
                      fy \in Float(RDiv(dy, pixel_height)) }

\* The window spanned by two pixel corners, offsets and ends left as they are.
UnclampedWindow(ul, lr, W, H) ==
    << IMin(ul[1], lr[1]), IMin(ul[2], lr[2]),
       IMax(ul[1], lr[1]) - IMin(ul[1], lr[1]),
       IMax(ul[2], lr[2]) - IMin(ul[2], lr[2]) >>

\* geo_bounds_to_pixel_bounds after the two conversions: axis order is
\* restored, the window is clamped to the W x H image.
ClampedWindow(ul, lr, W, H) ==
    LET x_off == IMax(0, IMin(ul[1], lr[1]))
        y_off == IMax(0, IMin(ul[2], lr[2]))
        x_end == IMin(W, IMax(ul[1], lr[1]))
        y_end == IMin(H, IMax(ul[2], lr[2]))
    IN  <<x_off, y_off, x_end - x_off, y_end - y_off>>

\* geo_bounds_to_pixel_bounds: the set of outcomes of the call, each
\* <<x_off, y_off, x_size, y_size>> or the error of a failed conversion.
geo_bounds_to_pixel_bounds(gt, min_x, min_y, max_x, max_y, W, H) ==
    LET uls == geo_to_pixel(gt, min_x, max_y)
        lrs == geo_to_pixel(gt, max_x, min_y)
    IN  IF CoordinateTransformError \in uls \/ CoordinateTransformError \in lrs
        THEN {CoordinateTransformError}
        ELSE { ClampedWindow(ul, lr, W, H) : ul \in uls, lr \in lrs }

\* Transforms, pixels, geospatial points and boxes, and image sizes the
\* functions are called with.
RotatedGT == <<RI(10), RI(2), RI(1), RI(20), RI(1), RI(-3)>>
ShearedGT == << RI(0), <<1, 10>>, <<1, 10>>, RI(0), <<-1, 10>>, <<1, 10>> >>
ZeroWidthGT == <<RI(0), RI(0), RI(0), RI(0), RI(0), RI(1)>>
TransformGTs ==
    {ScenarioGT, NorthUp, SouthUpGT, RotatedGT, ShearedGT, SingularGT,
     ZeroWidthGT}
PixelCoords == { <<100, 50>>, <<0, 0>>, <<3, 4>> }
GeoPoints == { << <<1161, 10>>, <<799, 20>> >>, <<RI(12), RI(7)>> }
GeoBoxes ==
    { << <<1161, 10>>, <<199, 5>>, <<1163, 10>>, <<799, 20>> >>,
      << <<1159, 10>>, RI(39), <<2321, 20>>, <<401, 10>> >>,
      << <<586, 5>>, <<399, 10>>, <<1173, 10>>, <<799, 20>> >>,
      << RI(-5), RI(-5), RI(30), RI(40) >> }
ImageSizes == { <<1000, 800>>, <<16, 12>> }

\* One call of pixel_to_geo.
call_pixel_to_geo(gt, p) ==
    /\ \E r \in pixel_to_geo(gt, p[1], p[2]) :
          call' = [fn |-> "pixel_to_geo", gt |-> gt, args |-> p,
                   size |-> None, result |-> r, pixel |-> None,
                   window |-> None]
    /\ UNCHANGED <<editor, output>>

\* One call of geo_to_pixel on a geospatial point.
call_geo_to_pixel(gt, g) ==
    /\ \E r \in geo_to_pixel(gt, g[1], g[2]) :
          call' = [fn |-> "geo_to_pixel", gt |-> gt, args |-> g,
                   size |-> None, result |-> r, pixel |-> None,
                   window |-> None]
    /\ UNCHANGED <<editor, output>>

\* geo_to_pixel(gt, *pixel_to_geo(gt, px, py)): the result of the last call
\* is passed back with the same transform.
call_geo_to_pixel_of_result ==
    /\ call.fn = "pixel_to_geo"
    /\ \E r \in geo_to_pixel(call.gt, call.result[1], call.result[2]) :
          call' = [fn |-> "geo_to_pixel", gt |-> call.gt,
                   args |-> call.result, size |-> None, result |-> r,
                   pixel |-> call.args, window |-> None]
    /\ UNCHANGED <<editor, output>>

\* One call of geo_bounds_to_pixel_bounds.
call_geo_bounds_to_pixel_bounds(gt, b, sz) ==
    /\ \E r \in geo_bounds_to_pixel_bounds(gt, b[1], b[2], b[3], b[4],
                                           sz[1], sz[2]) :
          call' = [fn |-> "geo_bounds_to_pixel_bounds", gt |-> gt,
                   args |-> b, size |-> sz, result |-> r, pixel |-> None,
                   window |-> None]
    /\ UNCHANGED <<editor, output>>

(***************************************************************************)
(* utils.py and crop_core.py: bounds validation and the two crops.  GDAL   *)
(* opens the source, creates the output and copies the bands without       *)
(* failure; the output raster is its size and geotransform.                *)
(***************************************************************************)
\* The exception validate_pixel_bounds raises, and the True the crops return.
InvalidBoundsError == <<"InvalidBoundsError">>
Done == <<"True">>

\* Bounds returned as they were given.
BoundsAsGiven(bounds, W, H) == bounds

\* validate_pixel_bounds with W - 1 and H - 1 taken for the far edge.
validate_pixel_bounds_exclusive(bounds, W, H) ==
    LET x_off == bounds[1]
        y_off == bounds[2]
        x_size == bounds[3]
        y_size == bounds[4]
    IN  IF x_off < 0 \/ y_off < 0 THEN InvalidBoundsError
        ELSE IF x_off >= W - 1 \/ y_off >= H - 1 THEN InvalidBoundsError
        ELSE IF x_size <= 0 \/ y_size <= 0 THEN InvalidBoundsError
        ELSE << x_off, y_off,
                IF x_off + x_size > W - 1 THEN W - 1 - x_off ELSE x_size,
                IF y_off + y_size > H - 1 THEN H - 1 - y_off ELSE y_size >>

\* validate_pixel_bounds: the corrected <<x_off, y_off, x_size, y_size>>, or
\* InvalidBoundsError.
validate_pixel_bounds(bounds, W, H) ==
    LET x_off == bounds[1]
        y_off == bounds[2]
        x_size == bounds[3]
        y_size == bounds[4]
    IN  IF x_off < 0 \/ y_off < 0 THEN InvalidBoundsError
        ELSE IF x_off >= W \/ y_off >= H THEN InvalidBoundsError
        ELSE IF x_size <= 0 \/ y_size <= 0 THEN InvalidBoundsError
        ELSE << x_off, y_off,
                IF x_off + x_size > W THEN W - x_off ELSE x_size,
                IF y_off + y_size > H THEN H - y_off ELSE y_size >>

\* A crop transform that keeps the origin of the source.
SourceGeotransform(gt, x_off, y_off) == {gt}

\* calculate_crop_geotransform: the set of transforms the call can return.
calculate_crop_geotransform(gt, x_off, y_off) ==
    LET x_origin == gt[1]
        pixel_width == gt[2]
        x_rotation == gt[3]
        y_origin == gt[4]
        y_rotation == gt[5]
        pixel_height == gt[6]
        new_x_origin == RAdd(RAdd(x_origin, RMul(RI(x_off), pixel_width)),
                             RMul(RI(y_off), x_rotation))
        new_y_origin == RAdd(RAdd(y_origin, RMul(RI(x_off), y_rotation)),
                             RMul(RI(y_off), pixel_height))
    IN  { <<fx, pixel_width, x_rotation, fy, y_rotation, pixel_height>> :
            fx \in Float(new_x_origin), fy \in Float(new_y_origin) }

\* crop_by_pixel on source raster src with the file `out` at the output
\* path: the set of outcomes, each the result (Done or the exception), the
\* validated window and the file at the output path afterwards.
crop_by_pixel(src, out, x_off, y_off, x_size, y_size) ==
    LET bounds == validate_pixel_bounds(<<x_off, y_off, x_size, y_size>>,
                                        src.width, src.height)
    IN  IF bounds = InvalidBoundsError
        THEN {[result |-> InvalidBoundsError, window |-> None, output |-> out]}
        ELSE {[result |-> Done, window |-> bounds,
               output |-> [width |-> bounds[3], height |-> bounds[4],
                           gt |-> dst_gt]] :
                dst_gt \in calculate_crop_geotransform(src.gt, bounds[1],
                                                       bounds[2])}

\* crop_by_geo: the set of outcomes; the window is the one handed to
\* crop_by_pixel.
crop_by_geo(src, out, min_x, min_y, max_x, max_y) ==
    LET windows == geo_bounds_to_pixel_bounds(src.gt, min_x, min_y, max_x,
                                              max_y, src.width, src.height)
    IN  IF CoordinateTransformError \in windows
        THEN {[result |-> CoordinateTransformError, window |-> None,
               output |-> out]}
        ELSE UNION { { [result |-> o.result, window |-> w,
                        output |-> o.output] :
                         o \in crop_by_pixel(src, out, w[1], w[2], w[3],
                                             w[4]) } :
                     w \in windows }

\* Source rasters, pixel windows, crop offsets and geo boxes the crop core
\* is called with.  The 500x400 raster is the one tests/test_crop.py makes.
SourceRasters ==
    { [width |-> 500, height |-> 400, gt |-> ScenarioGT],
      [width |-> 16, height |-> 12, gt |-> ShearedGT],
      [width |-> 16, height |-> 12, gt |-> NorthUp] }
PixelWindows ==
    { <<100, 50, 200, 150>>, <<3, 4, 5, 6>>, <<400, 300, 200, 150>>,
      <<300, 250, 200, 150>>,
      <<-1, 0, 10, 10>>, <<500, 0, 10, 10>>, <<0, 12, 4, 4>>,
      <<0, 0, 0, 5>> }
CropOffsets == { <<100, 50>>, <<3, 4>> }
CropBoxes ==
    { << <<1161, 10>>, <<397, 10>>, <<1163, 10>>, <<399, 10>> >>,
      << <<580501, 5000>>, <<397, 10>>, <<580504, 5000>>, <<399, 10>> >>,
      << <<586, 5>>, <<399, 10>>, <<1173, 10>>, <<799, 20>> >>,
      << <<1161, 10>>, <<391, 10>>, <<1163, 10>>, <<393, 10>> >>,
      << RI(1), RI(-1), RI(2), RI(0) >> }

\* One call of validate_pixel_bounds.
call_validate_pixel_bounds(w, sz) ==
    /\ call' = [fn |-> "validate_pixel_bounds", gt |-> None, args |-> w,
                size |-> sz, pixel |-> None, window |-> None,
                result |-> validate_pixel_bounds(w, sz[1], sz[2])]
    /\ UNCHANGED <<editor, output>>

\* One call of calculate_crop_geotransform.
call_calculate_crop_geotransform(gt, off) ==
    /\ \E r \in calculate_crop_geotransform(gt, off[1], off[2]) :
          call' = [fn |-> "calculate_crop_geotransform", gt |-> gt,
                   args |-> off, size |-> None, result |-> r,
                   pixel |-> None, window |-> None]
    /\ UNCHANGED <<editor, output>>

\* One call of crop_by_pixel.
call_crop_by_pixel(src, w) ==
    /\ \E o \in crop_by_pixel(src, output, w[1], w[2], w[3], w[4]) :
          /\ call' = [fn |-> "crop_by_pixel", gt |-> src.gt, args |-> w,
                      size |-> <<src.width, src.height>>,
                      result |-> o.result, pixel |-> None,
                      window |-> o.window]
          /\ output' = o.output
    /\ UNCHANGED editor

\* One call of crop_by_geo.
call_crop_by_geo(src, b) ==
    /\ \E o \in crop_by_geo(src, output, b[1], b[2], b[3], b[4]) :
          /\ call' = [fn |-> "crop_by_geo", gt |-> src.gt, args |-> b,
                      size |-> <<src.width, src.height>>,
                      result |-> o.result, pixel |-> None,
                      window |-> o.window]
          /\ output' = o.output
    /\ UNCHANGED editor

(***************************************************************************)
(* The commit-crop action.                                                 *)
(***************************************************************************)
\* A return value of crop_by_pixel that tests false.
NotDone == <<"False">>

\* The exception open_raster ends with when current_file is None.
OpenFailed == <<"Exception">>

\* The file original_image.crop((x, y, x+w, y+h)).save(out_path) writes: PIL
\* keeps the size of the box and writes no geotransform.
PILCrop(b) == [width |-> b[3], height |-> b[4], gt |-> None]

\* save_crop: `chosen` is whether the file dialog returned a path.  An
\* exception of crop_by_pixel is caught and reported; nothing is written.
save_crop(chosen) ==
    /\ event' = Ev("save_crop", 0, 0, IF chosen THEN 1 ELSE 0)
    /\ IF crop_bounds = None \/ ~chosen
       THEN UNCHANGED core
       ELSE IF ~original_image
       THEN /\ call' = [fn |-> "crop_by_pixel", gt |-> None,
                        args |-> crop_bounds, size |-> None,
                        result |-> OpenFailed, pixel |-> None,
                        window |-> None]
            /\ UNCHANGED output
       ELSE \E o \in crop_by_pixel([width |-> img_width, height |-> img_height,
                                    gt |-> geo_transform], output,
                                   crop_bounds[1], crop_bounds[2],
                                   crop_bounds[3], crop_bounds[4]) :
              /\ call' = [fn |-> "crop_by_pixel", gt |-> geo_transform,
                          args |-> crop_bounds,
                          size |-> <<img_width, img_height>>,
                          result |-> o.result, pixel |-> None,
                          window |-> o.window]
              /\ output' = IF o.result = Done THEN o.output
                            ELSE IF o.result = NotDone
                            THEN PILCrop(crop_bounds)
                            ELSE output
    /\ UNCHANGED <<image, canvas, view, pan, drag, crop_bounds, coord_mode,
                   entries, button1>>

(***************************************************************************)
(* The event loop: one event is handled to completion at a time.  Every    *)
(* handler that changes the image, the canvas or the view ends with        *)
(* redraw(); the others leave them as the last redraw saw them.            *)
(***************************************************************************)
HandledWithin(bound, handler) ==
    /\ n_events < bound
    /\ n_events' = n_events + 1
    /\ handler
    /\ rendered' = redraw(original_image', img_width', img_height', canvas_w',
                           canvas_h', scale', offset_x', offset_y')
    /\ switch_origin' =
          IF event'.name = "select_mode" /\ coord_mode = "pixel"
             /\ coord_mode' = "geo"
          THEN entries
          ELSE IF event'.name = "select_mode" /\ coord_mode = "geo"
                  /\ coord_mode' = "pixel"
          THEN switch_origin
          ELSE None
    /\ since_reset' =
          IF event'.name = "reset_crop" THEN TRUE
          ELSE IF event'.name \in {"on_crop_start", "apply_input_bounds"}
          THEN FALSE
          ELSE since_reset
    /\ grab' =
          IF event'.name = "on_crop_start"
          THEN IF crop_drag_mode' = "move"
               THEN <<canvas_to_image_x(event'.x), canvas_to_image_y(event'.y)>>
               ELSE None
          ELSE IF event'.name = "on_crop_end" THEN None
          ELSE grab

Handled(handler) == HandledWithin(MaxEvents, handler)

\* An event whose handler makes no call into the crop core.
Event(handler) == Handled(handler) /\ UNCHANGED core

Next ==
    \/ \E img \in Images : Event(open_image(img))
    \/ \E p \in WheelPoints, delta \in {-1, 1} : Event(on_mouse_wheel(p, delta))
    \/ \E p \in PanStartPoints : Event(on_pan_start(p))
    \/ \E p \in PanPoints : Event(on_pan_drag(p))
    \/ \E p \in PanPoints : Event(on_pan_end(p))
    \/ \E p \in Points : Event(on_crop_start(p))
    \/ \E p \in Points : Event(on_crop_drag(p))
    \/ \E p \in Points : Event(on_crop_end(p))
    \/ \E t \in TypedEntries : Event(type_entries(t))
    \/ Event(apply_input_bounds)
    \/ \E m \in {"pixel", "geo"} : Event(select_mode(m))
    \/ \E d \in Nudges : Event(move_crop(d[1], d[2]))
    \/ Event(reset_crop)

Spec == Init /\ [][Next]_vars

\* The viewport alone: every command that changes scale, offsets or canvas.
NextView ==
    \/ \E img \in ViewImages : Event(open_image(img))
    \/ \E c \in Canvases : Event(on_resize(c))
    \/ Event(zoom_fit)
    \/ Event(zoom_100)
    \/ Event(zoom_in)
    \/ Event(zoom_out)
    \/ \E p \in ViewWheelPoints, delta \in {-1, 1} : Event(on_mouse_wheel(p, delta))
    \/ \E p \in ViewPanPoints : Event(on_pan_start(p))
    \/ \E p \in ViewPanPoints : Event(on_pan_drag(p))
    \/ \E p \in ViewPanPoints : Event(on_pan_end(p))

SpecView == Init /\ [][NextView]_vars

\* The side panel alone, on georeferenced files: numeric entry, commit, unit
\* switch, nudge and reset.  The unit switch goes to the other unit (Next
\* also re-selects the unit already shown).
NextGeo ==
    \/ \E img \in GeoImages : Event(open_image(img))
    \/ \E t \in GeoTypedEntries : Event(type_entries(t))
    \/ Event(apply_input_bounds)
    \/ \E m \in {"pixel", "geo"} \ {coord_mode} : Event(select_mode(m))
    \/ \E d \in Nudges : Event(move_crop(d[1], d[2]))
    \/ Event(reset_crop)

SpecGeo == Init /\ [][NextGeo]_vars

\* The conversion functions called in any order on any of the inputs.
NextTransform ==
    \/ \E gt \in TransformGTs, p \in PixelCoords : call_pixel_to_geo(gt, p)
    \/ \E gt \in TransformGTs, g \in GeoPoints : call_geo_to_pixel(gt, g)
    \/ call_geo_to_pixel_of_result
    \/ \E gt \in TransformGTs, b \in GeoBoxes, sz \in ImageSizes :
          call_geo_bounds_to_pixel_bounds(gt, b, sz)

SpecTransform == Init /\ [][NextTransform]_vars

\* The crop core called in any order on any of the inputs.
NextCrop ==
    \/ \E w \in PixelWindows, sz \in ImageSizes :
          call_validate_pixel_bounds(w, sz)
    \/ \E src \in SourceRasters, off \in CropOffsets :
          call_calculate_crop_geotransform(src.gt, off)
    \/ \E src \in SourceRasters, w \in PixelWindows : call_crop_by_pixel(src, w)
    \/ \E src \in SourceRasters, b \in CropBoxes : call_crop_by_geo(src, b)

SpecCrop == Init /\ [][NextCrop]_vars

\* Selecting a region by drag or by numbers and saving it.
NextSave ==
    \/ \E img \in Images : Event(open_image(img))
    \/ \E p \in Points : Event(on_crop_start(p))
    \/ \E p \in Points : Event(on_crop_drag(p))
    \/ \E p \in Points : Event(on_crop_end(p))
    \/ \E t \in TypedEntries : Event(type_entries(t))
    \/ Event(apply_input_bounds)
    \/ Event(reset_crop)
    \/ \E chosen \in BOOLEAN : Handled(save_crop(chosen))

SpecSave == Init /\ [][NextSave]_vars

\* A move drag on the 760x1140 image with the wheel turned during it.  The
\* file is opened once.  The wheel event carries the position of the
\* pointer, which is where the last pointer event left it.
MoveImages == { [w |-> 760, h |-> 1140, gt |-> NorthUp] }
MovePoints == { <<250, 100>>, <<400, 300>>, <<300, 200>>, <<350, 250>> }
MoveEvent(handler) == HandledWithin(MaxMoveEvents, handler) /\ UNCHANGED core
NextMove ==
    \/ \E img \in MoveImages : ~original_image /\ MoveEvent(open_image(img))
    \/ \E p \in MovePoints : MoveEvent(on_crop_start(p))
    \/ \E p \in MovePoints : MoveEvent(on_crop_drag(p))
    \/ \E p \in MovePoints : MoveEvent(on_crop_end(p))
    \/ \E delta \in {-1, 1} :
          /\ event.name \in {"on_crop_start", "on_crop_drag", "on_crop_end",
                              "on_mouse_wheel"}
          /\ MoveEvent(on_mouse_wheel(<<event.x, event.y>>, delta))

SpecMove == Init /\ [][NextMove]_vars

(***************************************************************************)
(* Properties of the crop region.                                          *)
(***************************************************************************)
\* Bounds b lie inside the W x H image.
InsideImage(b) ==
    /\ b[1] >= 0 /\ b[2] >= 0
    /\ b[1] + b[3] <= img_width /\ b[2] + b[4] <= img_height

\* C1: in every state reachable by editor events on a loaded image, the crop
\* region is either none or has w > 0, h > 0 and lies inside [0,W] x [0,H]
\* (out-of-range input is clamped, never stored as is).
CropRegionWithinImage ==
    (original_image /\ crop_bounds # None) =>
        /\ crop_bounds[3] > 0 /\ crop_bounds[4] > 0
        /\ InsideImage(crop_bounds)

\* A pointer-move of a move drag or of a handle-resize drag.
IsMoveDrag == crop_drag_mode = "move" /\ drag_start_bounds # None
IsResizeDrag == crop_drag_mode = "resize" /\ drag_start_bounds # None

\* C2: a move drag or handle-resize drag that starts from a region inside
\* [0,W] x [0,H] (here: one that already has w >= 10 and h >= 10) never
\* produces bounds with x < 0, y < 0, x+w > W, y+h > H, w < 10 or h < 10.
DragKeepsRegionValid ==
    [][ ( /\ event'.name = "on_crop_drag"
          /\ original_image
          /\ IsMoveDrag \/ IsResizeDrag
          /\ InsideImage(drag_start_bounds)
          /\ drag_start_bounds[3] >= MIN_CROP_SIZE
          /\ drag_start_bounds[4] >= MIN_CROP_SIZE )
        => ( /\ InsideImage(crop_bounds')
             /\ crop_bounds'[3] >= MIN_CROP_SIZE
             /\ crop_bounds'[4] >= MIN_CROP_SIZE ) ]_vars

\* v is t clamped to the interval [0, hi].
ClampedTo(v, t, hi) ==
    /\ 0 <= v /\ v <= hi
    /\ (0 <= t /\ t <= hi) => v = t
    /\ t < 0 => v = 0
    /\ t > hi => v = hi

\* The region b translated by (tx, ty) image pixels and clamped is c.
TranslatedAndClamped(b, tx, ty, c) ==
    /\ c[3] = b[3] /\ c[4] = b[4]
    /\ b[3] <= img_width => ClampedTo(c[1], tx, img_width - b[3])
    /\ b[4] <= img_height => ClampedTo(c[2], ty, img_height - b[4])

\* C3: a move drag and a keyboard nudge translate the crop region by the
\* image-space delta, then clamp x to [0, W-w] and y to [0, H-h]; the size is
\* unchanged, and a nudge with no crop region changes nothing.
MoveTranslatesAndClamps ==
    [][ /\ (event'.name = "on_crop_drag" /\ IsMoveDrag) =>
              LET b == drag_start_bounds
                  dx_img == RDiv(RI(event'.x - crop_start_x), scale)
                  dy_img == RDiv(RI(event'.y - crop_start_y), scale)
              IN  TranslatedAndClamped(b, Trunc(RAdd(RI(b[1]), dx_img)),
                                       Trunc(RAdd(RI(b[2]), dy_img)),
                                       crop_bounds')
        /\ (event'.name = "move_crop" /\ crop_bounds # None) =>
              TranslatedAndClamped(crop_bounds, crop_bounds[1] + event'.x,
                                   crop_bounds[2] + event'.y, crop_bounds')
        /\ (event'.name = "move_crop" /\ crop_bounds = None) =>
              UNCHANGED <<image, canvas, view, pan, drag, crop_bounds,
                          coord_mode, entries, button1>> ]_vars

\* A move drag has pulled the region past the left edge and was clamped to 0.
MoveDragClampedAtLeftEdge ==
    /\ event.name = "on_crop_drag" /\ event.from = "MOVING"
    /\ IsMoveDrag
    /\ Trunc(RAdd(RI(drag_start_bounds[1]),
                  RDiv(RI(event.x - crop_start_x), scale))) < 0
    /\ crop_bounds[1] = 0
    /\ crop_bounds[3] = drag_start_bounds[3]

\* C4: during a handle-resize drag only the edges the handle bears move: an
\* N-bearing handle leaves the bottom edge y+h at its snapshot value, an
\* S-bearing one leaves y, a W-bearing one leaves the right edge x+w, an
\* E-bearing one leaves x, for every pointer delta.
ResizeMovesOnlyBorneEdges ==
    [][ (event'.name = "on_crop_drag" /\ IsResizeDrag) =>
            LET b == drag_start_bounds
                c == crop_bounds'
                h == active_handle
            IN  /\ h \in {"nw", "ne"} => c[2] + c[4] = b[2] + b[4]
                /\ h \in {"sw", "se"} => c[2] = b[2]
                /\ h \in {"nw", "sw"} => c[1] + c[3] = b[1] + b[3]
                /\ h \in {"ne", "se"} => c[1] = b[1] ]_vars

(***************************************************************************)
(* Properties of the InteractionController.                                *)
(***************************************************************************)
\* Some corner handle of the current region is in grab range of (cx, cy).
OnHandle(cx, cy) ==
    /\ crop_bounds # None
    /\ \E i \in 1..Len(Handles) : InHandle(Handles[i], cx, cy)

\* C5: with an image loaded and the controller idle, a primary pointer-down
\* on a corner handle enters RESIZING and records that handle and a snapshot
\* equal to the current crop region; otherwise, strictly inside the region,
\* it enters MOVING with the same snapshot; the crop region is unchanged.
PointerDownSelectsMode ==
    [][ ( /\ event'.name = "on_crop_start"
          /\ original_image
          /\ crop_drag_mode = "none" /\ ~dragging_crop )
        => /\ OnHandle(event'.x, event'.y) =>
                /\ crop_drag_mode' = "resize"
                /\ active_handle' # "none"
                /\ InHandle(active_handle', event'.x, event'.y)
                /\ drag_start_bounds' = crop_bounds
                /\ crop_bounds' = crop_bounds
           /\ (~OnHandle(event'.x, event'.y)
                    /\ _is_inside_crop(event'.x, event'.y)) =>
                /\ crop_drag_mode' = "move"
                /\ active_handle' = "none"
                /\ drag_start_bounds' = crop_bounds
                /\ crop_bounds' = crop_bounds ]_vars

\* A pointer-down has grabbed the north-west handle of the region.
PointerDownOnHandle ==
    /\ event.name = "on_crop_start" /\ event.from = "IDLE"
    /\ original_image
    /\ crop_drag_mode = "resize" /\ active_handle = "nw"
    /\ crop_bounds # None /\ drag_start_bounds = crop_bounds

\* Bounds c are the rectangle spanned by the image points under the display
\* points (x1, y1) and (x2, y2), cut to whole pixels.
SpannedBy(c, x1, y1, x2, y2) ==
    LET ix1 == canvas_to_image_x(x1)
        iy1 == canvas_to_image_y(y1)
        ix2 == canvas_to_image_x(x2)
        iy2 == canvas_to_image_y(y2)
    IN  /\ c[1] = Trunc(RMin(ix1, ix2))
        /\ c[2] = Trunc(RMin(iy1, iy2))
        /\ c[3] = Trunc(RAbs(RSub(ix2, ix1)))
        /\ c[4] = Trunc(RAbs(RSub(iy2, iy1)))

\* C6: a primary pointer-down that hits neither a handle nor the interior of
\* the region enters DRAWING and sets the crop region to none in that step;
\* the region committed at release is built from the new drag's two points
\* alone, whatever the old bounds were.
NewDragReplacesRegion ==
    [][ /\ ( /\ event'.name = "on_crop_start"
             /\ original_image
             /\ ~OnHandle(event'.x, event'.y)
             /\ ~_is_inside_crop(event'.x, event'.y) )
           => /\ dragging_crop'
              /\ crop_drag_mode' = "none"
              /\ crop_bounds' = None
        /\ ( /\ event'.name = "on_crop_end"
             /\ ControllerState = "DRAWING"
             /\ crop_bounds' # None )
           => SpannedBy(crop_bounds', crop_start_x, crop_start_y,
                        event'.x, event'.y) ]_vars

\* A pointer-down outside the region drawn before has cleared it (the numeric
\* fields still hold its bounds).
PointerDownClearedRegion ==
    /\ event.name = "on_crop_start" /\ event.from = "IDLE"
    /\ original_image
    /\ dragging_crop /\ crop_drag_mode = "none"
    /\ crop_bounds = None
    /\ coord_mode = "pixel"
    /\ entries = <<RI(80), RI(170), RI(300), RI(400)>>

\* The numeric fields show region cb in unit mode `mode` (blank for none).
FieldsShow(ents, cb, mode) ==
    IF cb = None THEN ents = <<None, None, None, None>>
    ELSE ents = update_crop_inputs(cb, mode, ents)

\* C7: a primary pointer-up in DRAWING, MOVING or RESIZING returns the
\* controller to idle with the drag state destroyed (mode none, no active
\* handle, no snapshot) and leaves the numeric fields showing the committed
\* crop region in the active unit mode.
PointerUpCommitsAndSyncs ==
    [][ ( /\ event'.name = "on_crop_end"
          /\ original_image
          /\ ControllerState \in {"DRAWING", "MOVING", "RESIZING"} )
        => /\ crop_drag_mode' = "none"
           /\ active_handle' = "none"
           /\ drag_start_bounds' = None
           /\ ~dragging_crop'
           /\ FieldsShow(entries', crop_bounds', coord_mode') ]_vars

\* C8: a drawing drag released at its pointer-down point, or whose
\* image-space extent is below 1 pixel in width or in height, leaves the crop
\* region none at every scale and offset; no rectangle with w = 0 or h = 0
\* is stored.
EmptyDragLeavesNoRegion ==
    [][ ( /\ event'.name = "on_crop_end"
          /\ ControllerState = "DRAWING" )
        => /\ ( \/ RLt(RI(Abs(event'.x - crop_start_x)), scale)
                \/ RLt(RI(Abs(event'.y - crop_start_y)), scale) )
              => crop_bounds' = None
           /\ crop_bounds' # None =>
                (crop_bounds'[3] > 0 /\ crop_bounds'[4] > 0) ]_vars

\* A drawing drag was released where it began, at a scale other than 1.
ZeroDragReleased ==
    /\ event.name = "on_crop_end" /\ event.from = "DRAWING"
    /\ original_image
    /\ event.x = crop_start_x /\ event.y = crop_start_y
    /\ scale # RI(1)
    /\ crop_bounds = None

\* C9: a wheel event zooms in every controller state and changes only scale
\* and offsets: interaction mode, active handle, drag snapshot, pointer-down
\* position and crop region are the same after it as before.
WheelChangesOnlyView ==
    [][ event'.name = "on_mouse_wheel"
        => /\ UNCHANGED <<image, canvas, pan, drag, crop_bounds, coord_mode,
                          entries, button1>>
           /\ (original_image /\ event'.d > 0 /\ RLt(scale, MAX_ZOOM))
                => RLt(scale, scale')
           /\ (original_image /\ event'.d < 0 /\ RLt(MIN_ZOOM, scale))
                => RLt(scale', scale) ]_vars

\* The wheel has zoomed the view in the middle of a handle-resize drag.
WheelDuringResize ==
    /\ event.name = "on_mouse_wheel" /\ event.from = "RESIZING"
    /\ original_image
    /\ crop_drag_mode = "resize" /\ active_handle # "none"
    /\ drag_start_bounds # None
    /\ scale # FitView(canvas_w, canvas_h, img_width, img_height)[1]

(***************************************************************************)
(* Properties of the viewport.                                             *)
(***************************************************************************)
\* C16: a secondary-button drag from p0 through any points to pn changes the
\* offsets by exactly pn - p0 and nothing else.  Step by step: secondary-down
\* records p0 and moves nothing; each secondary-move to p adds p minus the
\* recorded point to the offsets and records p (so offset minus recorded
\* point stays what it was at p0); secondary-up moves nothing.  No step
\* changes scale, crop region, crop mode, active handle or drag snapshot.
PanMovesOnlyOffsets ==
    [][ /\ event'.name = "on_pan_start" =>
              /\ pan_start_x' = event'.x /\ pan_start_y' = event'.y
              /\ UNCHANGED <<image, canvas, view, drag, crop_bounds,
                             coord_mode, entries>>
        /\ event'.name = "on_pan_drag" =>
              /\ RSub(offset_x', RI(pan_start_x'))
                    = RSub(offset_x, RI(pan_start_x))
              /\ RSub(offset_y', RI(pan_start_y'))
                    = RSub(offset_y, RI(pan_start_y))
              /\ pan_start_x' = event'.x /\ pan_start_y' = event'.y
              /\ UNCHANGED <<image, canvas, scale, drag, crop_bounds,
                             coord_mode, entries>>
        /\ event'.name = "on_pan_end" =>
              UNCHANGED <<image, canvas, view, drag, crop_bounds,
                          coord_mode, entries>> ]_vars

\* In the middle of a handle-resize drag the view was panned by (30, -20)
\* from where the fit had put it.
PannedDuringResize ==
    /\ event.name = "on_pan_drag" /\ event.x = 430 /\ event.y = 280
    /\ original_image /\ dragging_pan
    /\ crop_drag_mode = "resize" /\ drag_start_bounds # None
    /\ offset_x = RAdd(FitView(canvas_w, canvas_h, img_width, img_height)[2],
                       RI(30))
    /\ offset_y = RAdd(FitView(canvas_w, canvas_h, img_width, img_height)[3],
                       RI(-20))

\* The image coordinate under display coordinate a, for offset off and
\* scale sc (canvas_to_image on one axis, for a fractional anchor).
ImageCoord(a, off, sc) == RDiv(RSub(a, off), sc)

\* C11: a zoom is anchor-invariant, also when scale * factor is clamped to
\* MIN_ZOOM or MAX_ZOOM: the image point under the anchor is the same after
\* the zoom as before it, for the wheel zoom (anchor = cursor) and for the
\* toolbar/keyboard zoom (anchor = canvas centre).
ZoomKeepsAnchor ==
    [][ /\ event'.name = "on_mouse_wheel" =>
              /\ ImageCoord(RI(event'.x), offset_x', scale')
                    = ImageCoord(RI(event'.x), offset_x, scale)
              /\ ImageCoord(RI(event'.y), offset_y', scale')
                    = ImageCoord(RI(event'.y), offset_y, scale)
        /\ event'.name \in {"zoom_in", "zoom_out"} =>
              /\ ImageCoord(Rat(canvas_w, 2), offset_x', scale')
                    = ImageCoord(Rat(canvas_w, 2), offset_x, scale)
              /\ ImageCoord(Rat(canvas_h, 2), offset_y', scale')
                    = ImageCoord(Rat(canvas_h, 2), offset_y, scale) ]_vars

\* A wheel zoom-in has been clamped at MAX_ZOOM with the cursor off the
\* image origin.
WheelZoomClamped ==
    /\ event.name = "on_mouse_wheel" /\ event.d > 0
    /\ original_image
    /\ scale = MAX_ZOOM
    /\ offset_x # RI(event.x)

\* The view <<scale, offset_x, offset_y>> after a zoom by `factor` about the
\* display anchor (ax, ay).
ZoomedAt(ax, ay, factor) ==
    LET product == RMul(scale, factor)
        newScale == IF RLt(product, MIN_ZOOM) THEN MIN_ZOOM
                    ELSE IF RLt(MAX_ZOOM, product) THEN MAX_ZOOM
                    ELSE product
        realFactor == RDiv(newScale, scale)
    IN  << newScale,
           RSub(ax, RMul(RSub(ax, offset_x), realFactor)),
           RSub(ay, RMul(RSub(ay, offset_y), realFactor)) >>

\* C12: a zoom sets newScale = clamp(scale * factor, MIN_ZOOM, MAX_ZOOM),
\* realFactor = newScale / scale and offset' = anchor - (anchor - offset) *
\* realFactor on each axis; a wheel zoom-in at cursor (400, 300) from scale 1,
\* offset (0, 0) gives scale 1.2, offset_x -80, offset_y -60.
ZoomArithmetic ==
    [][ /\ (event'.name = "on_mouse_wheel" /\ original_image) =>
              view' = ZoomedAt(RI(event'.x), RI(event'.y),
                               IF event'.d < 0 THEN <<5, 6>> ELSE <<6, 5>>)
        /\ (event'.name = "zoom_in" /\ original_image) =>
              view' = ZoomedAt(Rat(canvas_w, 2), Rat(canvas_h, 2), <<6, 5>>)
        /\ (event'.name = "zoom_out" /\ original_image) =>
              view' = ZoomedAt(Rat(canvas_w, 2), Rat(canvas_h, 2), <<5, 6>>)
        /\ ( /\ event'.name = "on_mouse_wheel" /\ original_image
             /\ event'.x = 400 /\ event'.y = 300 /\ event'.d > 0
             /\ scale = RI(1) /\ offset_x = RI(0) /\ offset_y = RI(0) )
           => ( /\ scale' = <<6, 5>>
                /\ offset_x' = RI(-80)
                /\ offset_y' = RI(-60) ) ]_vars

\* The wheel has zoomed in at (400, 300) from scale 1, offset (0, 0).
WheelZoomScenario ==
    /\ event.name = "on_mouse_wheel" /\ event.d > 0
    /\ event.x = 400 /\ event.y = 300
    /\ original_image /\ img_width = 800 /\ img_height = 600
    /\ scale = <<6, 5>>
    /\ offset_x = RI(-80) /\ offset_y = RI(-60)

\* The view was just fitted: a 1000 x 800 image on an 800 x 600 canvas.
FittedScenario ==
    /\ event.name \in {"zoom_fit", "open_image"}
    /\ original_image /\ img_width = 1000 /\ img_height = 800
    /\ canvas_w = 800 /\ canvas_h = 600

\* C13 (as the code has it): fitting a 1000 x 800 image to an 800 x 600
\* canvas yields scale min(800/1000, 600/800) * 0.95 = 0.7125 with the image
\* centred at offset_x 43.75 and offset_y 15.
FitScenarioExact ==
    FittedScenario =>
        /\ scale = <<57, 80>>
        /\ offset_x = <<175, 4>>
        /\ offset_y = RI(15)

\* C13 (as stated): the same fit yields scale approximately 0.57 (within
\* 0.01) with offset_x approximately 172 and offset_y approximately 0
\* (within 1 display pixel).
FitScenarioAsStated ==
    FittedScenario =>
        /\ RLe(RAbs(RSub(scale, <<57, 100>>)), <<1, 100>>)
        /\ RLe(RAbs(RSub(offset_x, RI(172))), RI(1))
        /\ RLe(RAbs(offset_y), RI(1))

\* The 'f' key has fitted the 1000 x 800 image to the 800 x 600 canvas.
FitScenarioReached ==
    /\ event.name = "zoom_fit"
    /\ FittedScenario
    /\ scale = <<57, 80>>

FitGuardsBothDimensions ==
    ( /\ original_image
      /\ canvas_w < MIN_CANVAS \/ canvas_h < MIN_CANVAS )
    => /\ event.name \in {"zoom_fit", "open_image"} =>
             /\ scale = RMul(RMin(Rat(800, img_width), Rat(600, img_height)),
                             <<95, 100>>)
             /\ offset_x = RDiv(RSub(RI(800), RMul(RI(img_width), scale)),
                                RI(2))
             /\ offset_y = RDiv(RSub(RI(600), RMul(RI(img_height), scale)),
                                RI(2))
       /\ event.name = "zoom_100" =>
             /\ offset_x = Rat(800 - img_width, 2)
             /\ offset_y = Rat(600 - img_height, 2)

\* C10: in every state reachable by fit, 100%, wheel zoom, toolbar zoom and
\* pan on any image and canvas size, scale > 0 and MIN_ZOOM <= scale <= MAX_ZOOM.
ScaleWithinZoomLimits ==
    /\ scale[1] > 0
    /\ RLe(MIN_ZOOM, scale) /\ RLe(scale, MAX_ZOOM)

(***************************************************************************)
(* Properties of the unit conversion in the side panel.                    *)
(***************************************************************************)
\* The geospatial bounds the four fields report: <<minX, maxX, minY, maxY>>.
ReportedGeoBounds ==
    << entries[1], RAdd(entries[1], entries[3]),
       entries[2], RAdd(entries[2], entries[4]) >>

\* The 1000x800 file with geotransform (116.0, 0.001, 0, 40.0, 0, -0.001)
\* has the region (100,50,200,150) and the panel has just been switched to
\* geospatial units.
WindowSwitchedToGeo ==
    /\ event.name = "select_mode"
    /\ coord_mode = "geo"
    /\ has_geo
    /\ geo_transform = ScenarioGT
    /\ img_width = 1000 /\ img_height = 800
    /\ crop_bounds = <<100, 50, 200, 150>>

\* C17 (as the code computes it): the region (100,50,200,150) of the
\* 1000x800 file with geotransform (116.0, 0.001, 0, 40.0, 0, -0.001) is
\* reported in geospatial units as minX = 116.1, maxX = 116.3, minY = 39.8,
\* maxY = 39.95 (the bottom edge is pixel row 50 + 150 = 200, 40 - 0.2).
WindowReportedInGeoUnits ==
    WindowSwitchedToGeo =>
        ReportedGeoBounds = << <<1161, 10>>, <<1163, 10>>,
                               <<199, 5>>, <<799, 20>> >>

\* C17 as stated: the same region is reported as minX = 116.1,
\* maxX = 116.3, minY = 39.85, maxY = 39.95.
WindowReportedAsStated ==
    WindowSwitchedToGeo =>
        ReportedGeoBounds = << <<1161, 10>>, <<1163, 10>>,
                               <<797, 20>>, <<799, 20>> >>

\* The scenario's region is on screen in geospatial units with its top-left
\* corner at (116.1, 39.8) in the fields.
ScenarioWindowShown ==
    /\ WindowSwitchedToGeo
    /\ event.from = "IDLE"
    /\ entries[1] = <<1161, 10>>

(***************************************************************************)
(* Properties of coord_transform.py.                                       *)
(***************************************************************************)
\* The transforms the round-trip law is stated for: no rotation and both
\* pixel sizes nonzero, or rotation terms and a determinant of at least
\* 1e-10 in size (nonzero, for the values of this model).
Invertible(gt) ==
    IF gt[3] = RI(0) /\ gt[5] = RI(0)
    THEN gt[2][1] # 0 /\ gt[6][1] # 0
    ELSE Determinant(gt)[1] # 0

\* geo_to_pixel has returned for the geospatial image of a pixel under an
\* invertible transform.
RoundTripMade ==
    /\ call.fn = "geo_to_pixel"
    /\ call.pixel # None
    /\ Invertible(call.gt)

\* C18: for every invertible geotransform and every pixel (px, py),
\* geo_to_pixel(pixel_to_geo(px, py)) = (px, py).
RoundTripLaw == RoundTripMade => call.result = call.pixel

\* A transform with a rotation term whose determinant is below 1e-10 in
\* size (zero, for the values of this model).
SingularRotated(gt) ==
    /\ gt # None
    /\ gt[3] # RI(0) \/ gt[5] # RI(0)
    /\ Determinant(gt)[1] = 0

\* The fields hold four numbers.
FieldsFilled == \A k \in 1..4 : entries[k] # None

\* C19: a geo-to-pixel conversion requested by the editor for a transform
\* with a rotation term and a determinant below 1e-10 fails and no value
\* computed by another formula is substituted: a geospatial numeric-entry
\* commit stores no region, and a unit switch back to pixels that converts
\* the typed numbers leaves the fields as they are.
SingularConversionSubstitutesNothing ==
    [][ (has_geo /\ SingularRotated(geo_transform) /\ coord_mode = "geo"
         /\ FieldsFilled)
        => /\ event'.name = "apply_input_bounds" => crop_bounds' = crop_bounds
           /\ (event'.name = "select_mode" /\ coord_mode' = "pixel"
               /\ crop_bounds = None) => entries' = entries ]_vars

\* geo_bounds_to_pixel_bounds has returned a window.
WindowReturned ==
    /\ call.fn = "geo_bounds_to_pixel_bounds"
    /\ call.result # CoordinateTransformError

\* C20: for every geo bounding box and every image size W x H, the window
\* (x_off, y_off, x_size, y_size) that geo_bounds_to_pixel_bounds returns
\* has x_off >= 0, y_off >= 0, x_off + x_size <= W and y_off + y_size <= H,
\* whichever way the geospatial Y axis runs.
WindowClampedToImage ==
    WindowReturned =>
        /\ call.result[1] >= 0
        /\ call.result[2] >= 0
        /\ call.result[1] + call.result[3] <= call.size[1]
        /\ call.result[2] + call.result[4] <= call.size[2]

\* A box reaching beyond the left and the far row edge of a 1000x800 image
\* whose geospatial Y grows with pixel Y (corners at pixels (-100, 1100)
\* and (50, 0)) has come back clamped on both.
BoxClampedOnSouthUpImage ==
    /\ WindowReturned
    /\ call.gt = SouthUpGT
    /\ call.size = <<1000, 800>>
    /\ call.args = << <<1159, 10>>, RI(39), <<2321, 20>>, <<401, 10>> >>
    /\ call.result = <<0, 0, 50, 800>>

(***************************************************************************)
(* Properties of the crop core.                                            *)
(***************************************************************************)
\* The geospatial footprint <<min_x, min_y, max_x, max_y>> of a W x H
\* raster under an unrotated transform.
Footprint(gt, W, H) ==
    LET x1 == RAdd(gt[1], RMul(RI(W), gt[2]))
        y1 == RAdd(gt[4], RMul(RI(H), gt[6]))
    IN  <<RMin(gt[1], x1), RMin(gt[4], y1), RMax(gt[1], x1), RMax(gt[4], y1)>>

Unrotated(gt) == gt[3] = RI(0) /\ gt[5] = RI(0)

\* Box b and footprint f share no area.
Disjoint(b, f) ==
    \/ RLe(b[3], f[1]) \/ RLe(f[3], b[1])
    \/ RLe(b[4], f[2]) \/ RLe(f[4], b[2])

\* crop_by_geo was called with bounds that do not overlap the image and the
\* clamped window it computed has no area.
GeoCropOutsideImage ==
    /\ call.fn = "crop_by_geo"
    /\ Unrotated(call.gt)
    /\ Disjoint(call.args, Footprint(call.gt, call.size[1], call.size[2]))
    /\ call.window # None
    /\ call.window[3] <= 0 \/ call.window[4] <= 0

\* C21: a geospatial crop whose bounds do not overlap the image, so that
\* the clamped window has no area, ends without raising an error.
EmptyGeoCropRaisesNothing ==
    GeoCropOutsideImage => call.result = Done

\* Pixels (i, j) of the cropped raster the footprint is compared at.
CropPixels == { <<0, 0>>, <<0, 1>>, <<7, 3>> }

\* Two float values agree up to the rounding of the three operations that
\* separate them.
WithinRounding(a, b) == RLe(RAbs(RSub(a, b)), RMul(RI(3), FloatUlp))

\* Every value pixel_to_geo can return for pixel p under new_gt agrees within
\* rounding with every value it can return for pixel off + p under gt.
SameFootprintWithinRounding(new_gt, gt, off) ==
    \A p \in CropPixels :
        \A a \in pixel_to_geo(new_gt, p[1], p[2]),
           b \in pixel_to_geo(gt, off[1] + p[1], off[2] + p[2]) :
            WithinRounding(a[1], b[1]) /\ WithinRounding(a[2], b[2])

\* C22 (within float rounding): calculate_crop_geotransform copies the four
\* scale/rotation terms and sets the origin to pixel_to_geo(x_off, y_off)
\* under the original; for every pixel (i, j) of the crop, pixel_to_geo under
\* the new transform agrees with pixel_to_geo(x_off+i, y_off+j) under the
\* original up to float rounding, with or without rotation terms, and the
\* raster crop_by_pixel writes carries that transform.
CropTransformKeepsFootprint ==
    /\ call.fn = "calculate_crop_geotransform" =>
          /\ \A k \in {2, 3, 5, 6} : call.result[k] = call.gt[k]
          /\ <<call.result[1], call.result[4]>>
                \in pixel_to_geo(call.gt, call.args[1], call.args[2])
          /\ SameFootprintWithinRounding(call.result, call.gt, call.args)
    /\ (call.fn = "crop_by_pixel" /\ call.result = Done) =>
          /\ \A k \in {2, 3, 5, 6} : output.gt[k] = call.gt[k]
          /\ SameFootprintWithinRounding(output.gt, call.gt, call.window)

\* C22 as stated: for every pixel (i, j) of the crop, pixel_to_geo under the
\* new transform equals pixel_to_geo(x_off+i, y_off+j) under the original.
CropTransformKeepsFootprintExactly ==
    call.fn = "calculate_crop_geotransform" =>
        \A p \in CropPixels :
            pixel_to_geo(call.result, p[1], p[2])
              = pixel_to_geo(call.gt, call.args[1] + p[1],
                             call.args[2] + p[2])

\* The transform of a crop at (3, 4) of a raster with rotation terms has
\* been computed, with origin (0.7, 0.1).
CropTransformOfRotatedRaster ==
    /\ call.fn = "calculate_crop_geotransform"
    /\ call.gt = ShearedGT
    /\ call.args = <<3, 4>>
    /\ call.result[1] = <<7, 10>> /\ call.result[4] = <<1, 10>>

(***************************************************************************)
(* Properties of the handle hit test.                                      *)
(***************************************************************************)
\* Squared display distance from (cx, cy) to a corner handle of the region.
HandleDistance2(name, cx, cy) ==
    LET dx == RSub(RI(cx), HandleX(name, crop_bounds))
        dy == RSub(RI(cy), HandleY(name, crop_bounds))
    IN  RAdd(RMul(dx, dx), RMul(dy, dy))

\* C23: the handle a primary-button press picks is the nearest to the
\* pointer among the corner handles within HANDLE_SIZE + 4 display pixels,
\* also when several are in range.
NearestHandleChosen ==
    (event.name = "on_crop_start" /\ crop_drag_mode = "resize"
     /\ crop_bounds # None) =>
        \A i \in 1..Len(Handles) :
            InHandle(Handles[i], event.x, event.y) =>
                RLe(HandleDistance2(active_handle, event.x, event.y),
                    HandleDistance2(Handles[i], event.x, event.y))

(***************************************************************************)
(* Properties of the renderer.                                             *)
(***************************************************************************)
\* The image-space window seen through the canvas meets [0,W] x [0,H] in a
\* non-empty area.
ImageVisible ==
    /\ RLt(RMax(RI(0), canvas_to_image_x(0)),
           RMin(RI(img_width), canvas_to_image_x(canvas_w)))
    /\ RLt(RMax(RI(0), canvas_to_image_y(0)),
           RMin(RI(img_height), canvas_to_image_y(canvas_h)))

\* C24: a redraw requests a resampled buffer if and only if the image-space
\* window seen through the canvas intersects [0,W] x [0,H] in a non-empty
\* area, and a requested window lies within [0,W] x [0,H] with positive
\* width and height.
RedrawRequestsIffVisible ==
    original_image =>
        /\ (rendered # None) <=> ImageVisible
        /\ rendered # None =>
              /\ 0 <= rendered[1] /\ rendered[1] < rendered[3]
              /\ rendered[3] <= img_width
              /\ 0 <= rendered[2] /\ rendered[2] < rendered[4]
              /\ rendered[4] <= img_height

(***************************************************************************)
(* Properties of the numeric fields.                                       *)
(***************************************************************************)
\* The pixel position of geospatial point (gx, gy) under the unrotated
\* transform of the file.
PixelOf(gx, gy) ==
    << RDiv(RSub(gx, geo_transform[1]), geo_transform[2]),
       RDiv(RSub(gy, geo_transform[4]), geo_transform[6]) >>

\* The pixel image of the geospatial box (x, y, x+w, y+h) held by fields e,
\* min and max taken per axis, as an integer region.
PixelImageOfBox(e) ==
    LET p1 == PixelOf(e[1], e[2])
        p2 == PixelOf(RAdd(e[1], e[3]), RAdd(e[2], e[4]))
    IN  << Trunc(RMin(p1[1], p2[1])), Trunc(RMin(p1[2], p2[2])),
           Trunc(RSub(RMax(p1[1], p2[1]), RMin(p1[1], p2[1]))),
           Trunc(RSub(RMax(p1[2], p2[2]), RMin(p1[2], p2[2]))) >>

\* C25: with an image loaded, a commit of four numeric fields replaces the
\* region in whatever controller state it occurs: in pixel mode by the
\* entered (x, y, w, h) truncated to integers, in geospatial mode by the
\* pixel image of the entered box (x, y, x+w, y+h), min/max per axis.
CommitReplacesRegion ==
    [][ (event'.name = "apply_input_bounds" /\ original_image /\ FieldsFilled)
        => IF coord_mode = "pixel"
           THEN crop_bounds' = << Trunc(entries[1]), Trunc(entries[2]),
                                  Trunc(entries[3]), Trunc(entries[4]) >>
           ELSE has_geo /\ Unrotated(geo_transform)
                /\ crop_bounds' = PixelImageOfBox(entries) ]_vars

\* A geospatial commit made in the middle of drawing a new region has stored
\* the region (100, 50, 200, 150).
CommittedGeoWhileDrawing ==
    /\ event.name = "apply_input_bounds"
    /\ event.from = "DRAWING"
    /\ coord_mode = "geo"
    /\ crop_bounds = <<100, 50, 200, 150>>

\* C26: a commit in which one of the four fields is not a number leaves the
\* region, the viewport and the contents of the four fields as they were.
InvalidCommitChangesNothing ==
    [][ (event'.name = "apply_input_bounds" /\ ~FieldsFilled)
        => UNCHANGED <<crop_bounds, view, entries>> ]_vars

\* A commit with an empty x field was made while a region existed, and the
\* region is still there.
InvalidCommitKeptRegion ==
    /\ event.name = "apply_input_bounds"
    /\ original_image
    /\ entries[1] = None /\ entries[2] # None
    /\ crop_bounds # None


\* ------------------------------------------------------------------------
\* Unit switch there and back
\* ------------------------------------------------------------------------

\* The four fields each hold a whole number.
WholeNumbers(e) == \A k \in 1..4 : e[k] # None /\ e[k][2] = 1

\* The panel has been switched from pixels to geospatial units and straight
\* back, on a file whose transform has no rotation term and nonzero pixel
\* sizes, and the fields held four whole numbers before the first switch.
SwitchedThereAndBack ==
    /\ event.name = "select_mode"
    /\ coord_mode = "pixel"
    /\ switch_origin # None
    /\ WholeNumbers(switch_origin)
    /\ has_geo
    /\ Unrotated(geo_transform)
    /\ Invertible(geo_transform)

\* C27: switching the unit pixel -> geo -> pixel with no edit in between
\* returns the four numeric fields to the values they held before the first
\* switch, with or without a region, for either sign of the pixel height.
UnitRoundTripRestoresFields ==
    SwitchedThereAndBack => entries = switch_origin


\* ------------------------------------------------------------------------
\* The crop core: pixel windows
\* ------------------------------------------------------------------------

\* Window w lies fully inside an image of size sz and has positive sizes.
WindowInside(w, sz) ==
    /\ w[1] >= 0 /\ w[2] >= 0
    /\ w[3] > 0 /\ w[4] > 0
    /\ w[1] + w[3] <= sz[1]
    /\ w[2] + w[4] <= sz[2]

\* C28: crop_by_pixel with a window that lies fully inside the source image
\* returns True and leaves an output raster whose width and height are
\* exactly x_size and y_size.
InsideWindowCroppedExactly ==
    (call.fn = "crop_by_pixel" /\ WindowInside(call.args, call.size))
        => /\ call.result = Done
           /\ output # None
           /\ output.width = call.args[3]
           /\ output.height = call.args[4]

\* crop_by_pixel has cropped a window that reaches the far edges of the
\* 500x400 raster.
EdgeWindowCropped ==
    /\ call.fn = "crop_by_pixel"
    /\ call.size = <<500, 400>>
    /\ call.args = <<300, 250, 200, 150>>
    /\ call.result = Done
    /\ output.width = 200 /\ output.height = 150


\* The conditions under which validate_pixel_bounds raises.
BoundsRejected(w, sz) ==
    \/ w[1] < 0 \/ w[2] < 0
    \/ w[1] >= sz[1] \/ w[2] >= sz[2]
    \/ w[3] <= 0 \/ w[4] <= 0

\* The contract of one validate_pixel_bounds call c.
ValidatedOrRaised(c) ==
    IF BoundsRejected(c.args, c.size)
    THEN c.result = InvalidBoundsError
    ELSE /\ c.result # InvalidBoundsError
         /\ c.result[1] = c.args[1] /\ c.result[2] = c.args[2]
         /\ c.result[3] > 0 /\ c.result[4] > 0
         /\ c.result[1] + c.result[3] <= c.size[1]
         /\ c.result[2] + c.result[4] <= c.size[2]

\* C29: validate_pixel_bounds raises InvalidBoundsError for a negative
\* offset, an offset at or beyond the image width or height, or a size <= 0,
\* and otherwise returns bounds with the same offset, positive sizes and the
\* far corner within the image; a crop_by_pixel call in which it raises
\* leaves the output path as it was, no raster created.
BoundsValidatedBeforeOutput ==
    [][ /\ call'.fn = "validate_pixel_bounds" => ValidatedOrRaised(call')
        /\ (call'.fn = "crop_by_pixel" /\ call'.result = InvalidBoundsError)
              => /\ BoundsRejected(call'.args, call'.size)
                 /\ output' = output ]_vars

\* crop_by_pixel has raised InvalidBoundsError for an offset at the image
\* width and there is no raster at the output path.
RejectedWindowLeftNoOutput ==
    /\ call.fn = "crop_by_pixel"
    /\ call.size = <<500, 400>>
    /\ call.args = <<500, 0, 10, 10>>
    /\ call.result = InvalidBoundsError
    /\ output = None


\* ------------------------------------------------------------------------
\* The crop core: geospatial boxes
\* ------------------------------------------------------------------------

\* Box b = <<min_x, min_y, max_x, max_y>> has area and lies inside
\* footprint f.
BoxInside(b, f) ==
    /\ RLt(b[1], b[3]) /\ RLt(b[2], b[4])
    /\ RLe(f[1], b[1]) /\ RLe(b[3], f[3])
    /\ RLe(f[2], b[2]) /\ RLe(b[4], f[4])

\* Whole number n is within one pixel of the rational r.
WithinOnePixel(n, r) == RLe(RAbs(RSub(RI(n), r)), RI(1))

\* crop_by_geo was called on a raster with an unrotated transform and
\* nonzero pixel sizes, with bounds inside the footprint of the raster.
GeoCropInsideImage ==
    /\ call.fn = "crop_by_geo"
    /\ Unrotated(call.gt)
    /\ Invertible(call.gt)
    /\ BoxInside(call.args, Footprint(call.gt, call.size[1], call.size[2]))

\* C30: for an unrotated transform and bounds inside the image footprint,
\* crop_by_geo produces an output whose width and height are within one
\* pixel of (maxX - minX) / |pixel width| and (maxY - minY) / |pixel height|.
GeoCropSizeWithinOnePixel ==
    GeoCropInsideImage
        => /\ call.result = Done
           /\ output # None
           /\ WithinOnePixel(output.width,
                  RDiv(RSub(call.args[3], call.args[1]), RAbs(call.gt[2])))
           /\ WithinOnePixel(output.height,
                  RDiv(RSub(call.args[4], call.args[2]), RAbs(call.gt[6])))


(***************************************************************************)
(* Properties of reset, save and the interaction state.                    *)
(***************************************************************************)
\* C31: after a reset the region stays none until a later primary press
\* starts a new drag or a numeric commit occurs; in particular the
\* pointer-move of a move or resize drag that was in progress at the reset
\* does not bring the region back.
ResetNotUndoneByDrag ==
    (since_reset /\ event.name = "on_crop_drag") => crop_bounds = None


\* The commit-crop action has just run on a region of a loaded image with a
\* path chosen, and the crop_by_pixel call it made did not succeed.
SaveCropFailed ==
    /\ original_image
    /\ event.name = "save_crop"
    /\ event.d = 1
    /\ crop_bounds # None
    /\ call.fn = "crop_by_pixel"
    /\ call.result # Done

\* C32: when the GDAL crop made by the commit-crop action does not succeed,
\* the action crops the in-memory image to the same window and saves that.
FailedGdalCropFallsBack ==
    SaveCropFailed => output = PILCrop(crop_bounds)


\* C33: a region exists only while an image is loaded: with no image loaded
\* no pointer, wheel, keyboard or numeric-commit event makes the region
\* different from none.
NoRegionWithoutImage ==
    ~original_image => crop_bounds = None


\* C34: after a new image is opened the region is none or lies within the
\* bounds of the newly opened image; here for a region that lay within the
\* previous image.
OpenLeavesNoStaleRegion ==
    [][ ( /\ event'.name = "open_image"
          /\ original_image
          /\ crop_bounds # None
          /\ InsideImage(crop_bounds) )
        => \/ crop_bounds' = None
           \/ /\ crop_bounds'[1] >= 0 /\ crop_bounds'[2] >= 0
              /\ crop_bounds'[1] + crop_bounds'[3] <= img_width'
              /\ crop_bounds'[2] + crop_bounds'[4] <= img_height' ]_vars


\* A pointer-move of a move drag has just been handled and the bounds it
\* stored were not clamped at the image edge.
MovedUnclamped ==
    /\ event.name = "on_crop_drag"
    /\ original_image
    /\ crop_drag_mode = "move"
    /\ drag_start_bounds # None
    /\ grab # None
    /\ crop_bounds = MoveBoundsUnclamped(event.x, event.y)

\* C35: during a move drag the region tracks the pointer: the image point
\* of the region that was under the pointer at the press is under the
\* pointer after every pointer-move, up to one image pixel, also when wheel
\* zooms are interleaved.
MoveTracksPointer ==
    MovedUnclamped =>
        /\ RLe(RAbs(RSub(RAdd(RI(crop_bounds[1]),
                              RSub(grab[1], RI(drag_start_bounds[1]))),
                         canvas_to_image_x(event.x))), RI(1))
        /\ RLe(RAbs(RSub(RAdd(RI(crop_bounds[2]),
                              RSub(grab[2], RI(drag_start_bounds[2]))),
                         canvas_to_image_y(event.y))), RI(1))


\* A pointer-move of a resize drag has just been handled with the pointer
\* at the position of the press.
ResizedByZero ==
    /\ event.name = "on_crop_drag"
    /\ original_image
    /\ crop_drag_mode = "resize"
    /\ drag_start_bounds # None
    /\ event.x = crop_start_x
    /\ event.y = crop_start_y

\* C36: a resize drag whose pointer-move brings the pointer back to the
\* position of the press leaves the region equal to the snapshot taken at
\* the press, for every region that can exist at the press.
ZeroResizeKeepsRegion ==
    ResizedByZero => crop_bounds = drag_start_bounds


(***************************************************************************)
(* Properties of the zoom direction.                                       *)
(***************************************************************************)
\* The event just handled asked to zoom in / to zoom out.
ZoomsIn(e) == e.name = "zoom_in" \/ (e.name = "on_mouse_wheel" /\ e.d > 0)
ZoomsOut(e) == e.name = "zoom_out" \/ (e.name = "on_mouse_wheel" /\ e.d < 0)

\* C37: in every reachable viewport state a zoom-in never decreases scale
\* and a zoom-out never increases it.
ZoomDirectionMonotone ==
    [][ /\ ZoomsIn(event') => RLe(scale, scale')
        /\ ZoomsOut(event') => RLe(scale', scale) ]_vars


(***************************************************************************)
(* Properties of the unit selector.                                        *)
(***************************************************************************)
\* C38: selecting the unit that is already active leaves the four numeric
\* fields unchanged, whether or not a region exists.
ReselectingUnitKeepsFields ==
    [][ (event'.name = "select_mode" /\ coord_mode' = coord_mode)
        => entries' = entries ]_vars


(***************************************************************************)
(* Properties of the clamped pixel window.                                 *)
(***************************************************************************)
\* C39: the sizes of the window geo_bounds_to_pixel_bounds returns are never
\* negative, for every geo bounding box, boxes entirely to one side of the
\* image included.
WindowSizesNonNegative ==
    WindowReturned => call.result[3] >= 0 /\ call.result[4] >= 0


(***************************************************************************)
(* Properties of the interaction state.                                    *)
(***************************************************************************)
\* C40: with primary presses and releases alternating, at most one of
\* DRAWING, MOVING, RESIZING is active at a time, an active handle is
\* recorded exactly when the mode is RESIZING, a bounds snapshot exactly
\* when it is MOVING or RESIZING, and when no primary drag is in progress
\* all three are absent.
InteractionStateConsistent ==
    /\ ~(dragging_crop /\ crop_drag_mode # "none")
    /\ (active_handle # "none") <=> (crop_drag_mode = "resize")
    /\ (drag_start_bounds # None) <=> (crop_drag_mode \in {"move", "resize"})
    /\ ~button1 => /\ ~dragging_crop
                   /\ crop_drag_mode = "none"
                   /\ active_handle = "none"
                   /\ drag_start_bounds = None

\* A resize drag is in progress after a pointer-move: the handle and the
\* snapshot are recorded and no drawing drag is active.
ResizeDragInProgress ==
    /\ button1
    /\ event.name = "on_crop_drag"
    /\ crop_drag_mode = "resize"
    /\ active_handle # "none"
    /\ drag_start_bounds # None
    /\ ~dragging_crop

====
